---- MODULE Spec2Model ----
(***************************************************************************)
(* macconfigurator: the application registry of the in-memory              *)
(* ConfigStorageService (InMemoryConfigServiceLayer) and of the MongoDB    *)
(* one (MongoConfigServiceLayer), together with the DataValidationService  *)
(* and the schema/semver validators they compose; and the useAutosave      *)
(* hook of the admin client, as the NamedConfigEdit form uses it.          *)
(*                                                                         *)
(* JSON values are modelled by the fragment the registry distinguishes:    *)
(*   - a configuration payload is a JSON object, modelled by the set of    *)
(*     property names it carries;                                          *)
(*   - a schema is either an object schema {type: object, required: [..]}  *)
(*     (the empty schema {} is the one with no required property), a       *)
(*     malformed schema object, or null;                                   *)
(*   - a named-configuration map is a JavaScript object, modelled by the   *)
(*     sequence of its entries in own-property enumeration order.          *)
(***************************************************************************)
EXTENDS Integers, Sequences, FiniteSets, TLC

VARIABLES store, now, result, inserted, cacheControl, collection, calls, failures,
          isSavingRef, timeoutRef, timeouts, saveStatus, idleTimeout,
          formData, versionsRef, validJson, requests, server, owed, burst

\* The state of the MongoDB-backed service: its collection, the calls its
\* clients have in flight, and the backend failures so far.
durable == <<collection, calls, failures>>

\* The state of a mounted NamedConfigEdit form and of its useAutosave hook.
hook == <<isSavingRef, timeoutRef, timeouts, saveStatus, idleTimeout,
          formData, versionsRef, validJson, requests, server, owed, burst>>

vars == <<store, now, result, inserted, cacheControl, collection, calls, failures,
          isSavingRef, timeoutRef, timeouts, saveStatus, idleTimeout,
          formData, versionsRef, validJson, requests, server, owed, burst>>

\* ------------------------------------------------------------------ bounds
\* Number of successful mutations explored (values of the clock).
MaxClock == 3
\* Number of mutating calls the clients of the MongoDB-backed service begin,
\* and number of backend accesses that fail.
MaxCalls == 3
MaxFailures == 1
\* Number of edits of each field of the form, and number of timer ids.
MaxEdits == 2
MaxTimeouts == 3
\* Number of requests whose completion is followed.
MaxRequests == 2

\* ------------------------------------------------------------- value sets
AppIds == {"a1", "a2"}
BlankId == " "
Props == <<"p", "q">>
PropSet == {Props[i] : i \in 1..Len(Props)}
\* A name every JavaScript object inherits a property of from
\* Object.prototype.
InheritedNames == {"constructor"}
ConfigNames == {"1", "a", "b", "constructor"}

\* Sequence helpers.
Range(s) == {s[i] : i \in 1..Len(s)}

RECURSIVE SeqConcat(_)
SeqConcat(ss) == IF ss = <<>> THEN <<>> ELSE Head(ss) \o SeqConcat(Tail(ss))

SelectIdx(s, Test(_)) ==
  LET idx == {i \in 1..Len(s) : Test(s[i])}
  IN IF idx = {} THEN 0 ELSE CHOOSE i \in idx : \A j \in idx : i <= j

\* ---------------------------------------------------------------- schemas
ObjectSchema(req) == [kind |-> "object", required |-> req]
SchemaAny == ObjectSchema({})
SchemaPQ == ObjectSchema(PropSet)
SchemaMalformed == [kind |-> "malformed", required |-> {}]
SchemaNull == [kind |-> "null", required |-> {}]
SchemaValues == {SchemaAny, SchemaPQ, SchemaMalformed, SchemaNull}

\* JavaScript truthiness of a schema value: objects are truthy, null is falsy.
Truthy(schema) == schema.kind # "null"

\* A validation issue {field, message, value}.
Issue(field, message) == [field |-> field, message |-> message]

\* Outcome of a validator call: the issue list, or a thrown exception.
Issues(errs) == [thrown |-> FALSE, errors |-> errs]
Thrown == [thrown |-> TRUE, errors |-> <<>>]

\* validateConfig(data, "https://json-schema.org/..."): ajv.validateSchema.
\* null has no $schema property to read, so the synchronous thunk throws.
ValidateMetaSchema(schema) ==
  CASE schema.kind = "object" -> Issues(<<>>)
    [] schema.kind = "malformed" -> Issues(<<Issue("type", "must be equal to one of the allowed values")>>)
    [] schema.kind = "null" -> Thrown

\* validateConfig(data, schema): ajv.compile(schema)(data) with allErrors,
\* one issue per missing required property; compile throws on a schema that
\* is not a schema.
ValidateConfig(data, schema) ==
  CASE schema.kind = "object" ->
         Issues(SeqConcat([i \in 1..Len(Props) |->
                  IF Props[i] \in schema.required /\ Props[i] \notin data
                  THEN <<Issue("#/required", Props[i])>> ELSE <<>>]))
    [] OTHER -> Thrown

\* --------------------------------------------------------------- versions
\* A version token parses as an exact version (optionally prefixed by v),
\* as a caret range, or not at all.
ParseToken(t) ==
  CASE t = "1.0.0" -> [form |-> "exact", major |-> 1, minor |-> 0]
    [] t = "v1.0.0" -> [form |-> "exact", major |-> 1, minor |-> 0]
    [] t = "1.2.0" -> [form |-> "exact", major |-> 1, minor |-> 2]
    [] t = "2.0.0" -> [form |-> "exact", major |-> 2, minor |-> 0]
    [] t = "^1.0.0" -> [form |-> "caret", major |-> 1, minor |-> 0]
    [] OTHER -> [form |-> "invalid", major |-> 0, minor |-> 0]

\* semver.valid(version): only a single exact version is valid.
SemverValid(t) == ParseToken(t).form = "exact"

\* semver.validRange(range).
SemverValidRange(t) == ParseToken(t).form # "invalid"

\* semver.satisfies(version, range); false when either does not parse.
SemverSatisfies(version, range) ==
  LET v == ParseToken(version)
      r == ParseToken(range)
  IN /\ v.form = "exact"
     /\ CASE r.form = "exact" -> v.major = r.major /\ v.minor = r.minor
          [] r.form = "caret" -> v.major = r.major /\ v.minor >= r.minor
          [] OTHER -> FALSE

\* validateSemver(versions): one issue per entry semver.valid rejects.
ValidateSemver(versions) ==
  SeqConcat([i \in 1..Len(versions) |->
     IF SemverValid(versions[i]) THEN <<>>
     ELSE <<Issue("versions[" \o ToString(i - 1) \o "]", versions[i])>>])

\* ------------------------------------------- JavaScript object as a mapping
\* Own string keys enumerate integer-like keys first, in ascending numeric
\* order, then the other keys in insertion order.
IntegerLike(name) == name \in {"1", "2"}
NumericValue(name) == IF name = "1" THEN 1 ELSE 2

Entry(name, data, versions) == [name |-> name, data |-> data, versions |-> versions]
ObjKeys(obj) == [i \in 1..Len(obj) |-> obj[i].name]
ObjHas(obj, name) == \E i \in 1..Len(obj) : obj[i].name = name

\* Truthiness of obj[name]: an own entry (an object), or a property
\* inherited from Object.prototype (a function).
ObjTruthy(obj, name) == ObjHas(obj, name) \/ name \in InheritedNames

\* Variant: the key is deleted and set again, an existing key moves to the
\* end.
ObjSet_MovesToEnd(obj, e) ==
  Append(SelectSeq(obj, LAMBDA x : x.name # e.name), e)

\* {...obj, [name]: value}: an existing key keeps its position.
ObjSet(obj, e) ==
  IF ObjHas(obj, e.name)
  THEN [i \in 1..Len(obj) |-> IF obj[i].name = e.name THEN e ELSE obj[i]]
  ELSE IF IntegerLike(e.name)
       THEN LET before == SelectSeq(obj, LAMBDA x : IntegerLike(x.name) /\ NumericValue(x.name) < NumericValue(e.name))
                after == SelectSeq(obj, LAMBDA x : ~(IntegerLike(x.name) /\ NumericValue(x.name) < NumericValue(e.name)))
            IN before \o <<e>> \o after
       ELSE Append(obj, e)

\* const { [name]: _, ...rest } = obj
ObjDelete(obj, name) == SelectSeq(obj, LAMBDA x : x.name # name)

RECURSIVE ObjFromEntries(_)
ObjFromEntries(es) ==
  IF es = <<>> THEN <<>> ELSE ObjSet(ObjFromEntries(SubSeq(es, 1, Len(es) - 1)), es[Len(es)])

\* ------------------------------------------------------ validation service
\* Exit of an effect of the validation service or the registry: success, a
\* tagged failure, or a defect (an exception thrown inside Effect.sync, which
\* Effect.catchAll does not intercept).
Exit(tag, errors, context, version, existingConfigName, newConfigName) ==
  [tag |-> tag, errors |-> errors, context |-> context, version |-> version,
   existingConfigName |-> existingConfigName, newConfigName |-> newConfigName]
Ok == Exit("ok", <<>>, "", "", "", "")
Defect == Exit("Defect", <<>>, "", "", "", "")
ConfigValidationError(errors, context) == Exit("ConfigValidationError", errors, context, "", "", "")
SemverValidationError(errors) == Exit("SemverValidationError", errors, "", "", "", "")
VersionConflictError(version, existingConfigName, newConfigName) ==
  Exit("VersionConflictError", <<>>, "", version, existingConfigName, newConfigName)
ApplicationNotFoundError == Exit("ApplicationNotFoundError", <<>>, "", "", "", "")
ApplicationAlreadyExistsError == Exit("ApplicationAlreadyExistsError", <<>>, "", "", "", "")
NamedConfigNotFoundError == Exit("NamedConfigNotFoundError", <<>>, "", "", "", "")
NamedConfigAlreadyExistsError == Exit("NamedConfigAlreadyExistsError", <<>>, "", "", "", "")

\* String.prototype.trim on the identifiers of the model.
Trim(s) == IF s = BlankId THEN "" ELSE s

validateApplicationId(applicationId) ==
  IF Trim(applicationId) = ""
  THEN ConfigValidationError(<<Issue("applicationId", "Application ID cannot be empty or whitespace only")>>,
                             "applicationId validation")
  ELSE Ok

validateSchema(schema) ==
  LET r == ValidateMetaSchema(schema)
  IN IF r.thrown THEN Defect
     ELSE IF Len(r.errors) > 0 THEN ConfigValidationError(r.errors, "schema validation")
     ELSE Ok

validateDataAgainstSchema(data, schema, context) ==
  LET r == ValidateConfig(data, schema)
  IN IF r.thrown THEN Defect
     ELSE IF Len(r.errors) > 0 THEN ConfigValidationError(r.errors, context)
     ELSE Ok

validateSemverVersions(versions) ==
  LET r == ValidateSemver(versions)
  IN IF Len(r) > 0 THEN SemverValidationError(r) ELSE Ok

\* The (config name, version) pairs in the order the two nested loops of
\* checkVersionUniqueness visit them.
VersionClaims(namedConfigs) ==
  SeqConcat([i \in 1..Len(namedConfigs) |->
     [j \in 1..Len(namedConfigs[i].versions) |->
        [name |-> namedConfigs[i].name, version |-> namedConfigs[i].versions[j]]]])

\* Variant: no token is ever recorded in the version map.
checkVersionUniqueness_Never(namedConfigs) == Ok

checkVersionUniqueness(namedConfigs) ==
  LET claims == VersionClaims(namedConfigs)
      dup == {j \in 1..Len(claims) : \E i \in 1..(j - 1) : claims[i].version = claims[j].version}
  IN IF dup = {} THEN Ok
     ELSE LET j == CHOOSE x \in dup : \A y \in dup : x <= y
              i == CHOOSE x \in 1..(j - 1) :
                     /\ claims[x].version = claims[j].version
                     /\ \A y \in 1..(j - 1) : claims[y].version = claims[j].version => x <= y
          IN VersionConflictError(claims[j].version, claims[i].name, claims[j].name)

\* The loop stops at the first named configuration whose data has issues.
validateNamedConfigs(namedConfigs, schema) ==
  LET bad == {i \in 1..Len(namedConfigs) :
                LET r == ValidateConfig(namedConfigs[i].data, schema)
                IN r.thrown \/ Len(r.errors) > 0}
  IN IF bad = {} THEN checkVersionUniqueness(namedConfigs)
     ELSE LET i == CHOOSE x \in bad : \A y \in bad : x <= y
              r == ValidateConfig(namedConfigs[i].data, schema)
          IN IF r.thrown THEN Defect
             ELSE ConfigValidationError(r.errors, "named config '" \o namedConfigs[i].name \o "'")

validateApplicationConfig(config) ==
  LET a == validateApplicationId(config.applicationId)
      s == validateSchema(config.schema)
      d == validateDataAgainstSchema(config.defaultConfig.data, config.schema, "default configuration")
  IN IF a.tag # "ok" THEN a
     ELSE IF s.tag # "ok" THEN s
     ELSE IF d.tag # "ok" THEN d
     ELSE IF Len(config.namedConfigs) > 0 THEN validateNamedConfigs(config.namedConfigs, config.schema)
     ELSE Ok

\* ------------------------------------------------------------- the registry
\* AppConfig.
AppConfig(applicationId, archived, schema, data, namedConfigs, lastUpdated) ==
  [applicationId |-> applicationId, archived |-> archived, schema |-> schema,
   defaultConfig |-> [data |-> data], namedConfigs |-> namedConfigs,
   lastUpdated |-> lastUpdated]

\* The store is a Map<string, AppConfig>: its entries in insertion order.
MapHas(m, key) == \E i \in 1..Len(m) : m[i].key = key
MapGet(m, key) == LET i == CHOOSE x \in 1..Len(m) : m[x].key = key IN m[i].value
\* Variant: new Map().set(key, value), the other entries are not carried
\* over.
MapSet_Alone(m, key, value) == <<[key |-> key, value |-> value]>>

MapSet(m, key, value) ==
  IF MapHas(m, key)
  THEN [i \in 1..Len(m) |-> IF m[i].key = key THEN [key |-> key, value |-> value] ELSE m[i]]
  ELSE Append(m, [key |-> key, value |-> value])
MapKeys(m) == {m[i].key : i \in 1..Len(m)}
MapValues(m) == [i \in 1..Len(m) |-> m[i].value]

\* What an operation returns: the exit, and on success the value, held in a
\* sequence (<<>> is null / void).
Result(op, key, arg, exit, apps, response) ==
  [op |-> op, key |-> key, arg |-> arg, exit |-> exit, apps |-> apps, response |-> response]

listApplications(m) == MapValues(m)

\* apps.get(applicationId) || null
getApplication(m, applicationId) ==
  IF MapHas(m, applicationId) THEN <<MapGet(m, applicationId)>> ELSE <<>>

\* Partial<AppConfig>: the fields the update object carries and their values.
FieldNames == {"applicationId", "archived", "schema", "defaultConfig", "namedConfigs", "lastUpdated"}
Partial(fields, val) == [fields |-> fields, val |-> val]

\* Variant: { ...existing, lastUpdated: new Date(), ...update }.
Merge_SuppliedTimeWins(existing, update, t) ==
  LET pick(f) == IF f \in update.fields THEN update.val[f] ELSE existing[f]
  IN [applicationId |-> pick("applicationId"), archived |-> pick("archived"),
      schema |-> pick("schema"), defaultConfig |-> pick("defaultConfig"),
      namedConfigs |-> pick("namedConfigs"),
      lastUpdated |-> IF "lastUpdated" \in update.fields THEN update.val.lastUpdated ELSE t]

\* Variant: { ...update, applicationId, lastUpdated: new Date() }, the fields
\* the update does not carry are reset.
Merge_Replaces(existing, update, t) ==
  LET blank == [applicationId |-> existing.applicationId, archived |-> FALSE, schema |-> ObjectSchema({}),
                defaultConfig |-> [data |-> {}], namedConfigs |-> <<>>, lastUpdated |-> t]
      pick(f) == IF f \in update.fields THEN update.val[f] ELSE blank[f]
  IN [applicationId |-> pick("applicationId"), archived |-> pick("archived"),
      schema |-> pick("schema"), defaultConfig |-> pick("defaultConfig"),
      namedConfigs |-> pick("namedConfigs"), lastUpdated |-> t]

\* { ...existing, ...update, lastUpdated: new Date() }
Merge(existing, update, t) ==
  LET pick(f) == IF f \in update.fields THEN update.val[f] ELSE existing[f]
  IN [applicationId |-> pick("applicationId"), archived |-> pick("archived"),
      schema |-> pick("schema"), defaultConfig |-> pick("defaultConfig"),
      namedConfigs |-> pick("namedConfigs"), lastUpdated |-> t]

\* update.schema || update.defaultConfig || update.namedConfigs
NeedsValidation(update) ==
  \/ "schema" \in update.fields /\ Truthy(update.val.schema)
  \/ "defaultConfig" \in update.fields
  \/ "namedConfigs" \in update.fields

\* The outcome of an operation on the store m: exit, new store, value.
Outcome(exit, m, apps) == [exit |-> exit, store |-> m, apps |-> apps]

\* Variant: the uniqueness check is missing, an existing entry is replaced.
createApplication_Overwrites(m, config, t) ==
  LET v == validateApplicationConfig(config)
      toInsert == [config EXCEPT !.lastUpdated = t]
  IN IF v.tag # "ok" THEN Outcome(v, m, <<>>)
     ELSE Outcome(Ok, MapSet(m, config.applicationId, toInsert), <<toInsert>>)

\* Variant: the record is built field by field and starts with no named
\* configuration.
createApplication_DropsNamedConfigs(m, config, t) ==
  LET v == validateApplicationConfig(config)
      toInsert == [config EXCEPT !.lastUpdated = t, !.namedConfigs = <<>>]
  IN IF v.tag # "ok" THEN Outcome(v, m, <<>>)
     ELSE IF MapHas(m, config.applicationId) THEN Outcome(ApplicationAlreadyExistsError, m, <<>>)
     ELSE Outcome(Ok, MapSet(m, config.applicationId, toInsert), <<toInsert>>)

createApplication(m, config, t) ==
  LET v == validateApplicationConfig(config)
      toInsert == [config EXCEPT !.lastUpdated = t]
  IN IF v.tag # "ok" THEN Outcome(v, m, <<>>)
     ELSE IF MapHas(m, config.applicationId) THEN Outcome(ApplicationAlreadyExistsError, m, <<>>)
     ELSE Outcome(Ok, MapSet(m, config.applicationId, toInsert), <<toInsert>>)

\* Variant: the merged record is written first and validated afterwards.
updateApplication_CommitsFirst(m, applicationId, update, t) ==
  LET existing == getApplication(m, applicationId)
  IN IF existing = <<>> THEN Outcome(ApplicationNotFoundError, m, <<>>)
     ELSE LET updated == Merge(existing[1], update, t)
              v == IF NeedsValidation(update) THEN validateApplicationConfig(updated) ELSE Ok
          IN IF v.tag # "ok" THEN Outcome(v, MapSet(m, applicationId, updated), <<>>)
             ELSE Outcome(Ok, MapSet(m, applicationId, updated), <<updated>>)

updateApplication(m, applicationId, update, t) ==
  LET existing == getApplication(m, applicationId)
  IN IF existing = <<>> THEN Outcome(ApplicationNotFoundError, m, <<>>)
     ELSE LET updated == Merge(existing[1], update, t)
              v == IF NeedsValidation(update) THEN validateApplicationConfig(updated) ELSE Ok
          IN IF v.tag # "ok" THEN Outcome(v, m, <<>>)
             ELSE Outcome(Ok, MapSet(m, applicationId, updated), <<updated>>)

\* Variant: the flag is written only to an application that passes the full
\* validation.
SetArchived_Validates(m, applicationId, flag, t) ==
  LET app == getApplication(m, applicationId)
  IN IF app = <<>> THEN Outcome(ApplicationNotFoundError, m, <<>>)
     ELSE IF validateApplicationConfig(app[1]).tag # "ok"
          THEN Outcome(validateApplicationConfig(app[1]), m, <<>>)
     ELSE Outcome(Ok, MapSet(m, applicationId, [app[1] EXCEPT !.archived = flag, !.lastUpdated = t]), <<>>)

SetArchived(m, applicationId, flag, t) ==
  LET app == getApplication(m, applicationId)
  IN IF app = <<>> THEN Outcome(ApplicationNotFoundError, m, <<>>)
     ELSE Outcome(Ok, MapSet(m, applicationId, [app[1] EXCEPT !.archived = flag, !.lastUpdated = t]), <<>>)

\* Variant: archive refreshes lastUpdated and leaves the flag as it was.
archiveApplication_KeepsFlag(m, applicationId, t) ==
  LET app == getApplication(m, applicationId)
  IN IF app = <<>> THEN Outcome(ApplicationNotFoundError, m, <<>>)
     ELSE Outcome(Ok, MapSet(m, applicationId, [app[1] EXCEPT !.lastUpdated = t]), <<>>)

archiveApplication(m, applicationId, t) == SetArchived(m, applicationId, TRUE, t)

\* Variant: unarchive refreshes lastUpdated and leaves the flag as it was.
unarchiveApplication_KeepsFlag(m, applicationId, t) ==
  LET app == getApplication(m, applicationId)
  IN IF app = <<>> THEN Outcome(ApplicationNotFoundError, m, <<>>)
     ELSE Outcome(Ok, MapSet(m, applicationId, [app[1] EXCEPT !.lastUpdated = t]), <<>>)

unarchiveApplication(m, applicationId, t) == SetArchived(m, applicationId, FALSE, t)

\* ConfigResponse.
Response(data, policy) == [data |-> data, cacheControl |-> policy]

\* config.cacheControl: absent, or a record of two durations in seconds.
NoCacheControl == [present |-> FALSE, defaultMaxAgeSeconds |-> 0, maxAgeSeconds |-> 0]
CacheControl(defaultMaxAgeSeconds, maxAgeSeconds) ==
  [present |-> TRUE, defaultMaxAgeSeconds |-> defaultMaxAgeSeconds, maxAgeSeconds |-> maxAgeSeconds]

\* cacheControl?.<field> ? `max-age=${...}` : "no-cache"
Directive(cc, seconds) ==
  IF cc.present /\ seconds # 0 THEN "max-age=" \o ToString(seconds) ELSE "no-cache"

Matches(config, version) ==
  \E i \in 1..Len(config.versions) : SemverSatisfies(version, config.versions[i])

\* Variant: with no match, the last named configuration is served.
Resolve_LastNamed(app, version, cc) ==
  IF app = <<>> THEN <<>>
  ELSE IF app[1].archived THEN <<>>
  ELSE LET nc == app[1].namedConfigs
           i == SelectIdx(nc, LAMBDA c : Matches(c, version))
       IN IF i > 0 THEN <<Response(nc[i].data, Directive(cc, cc.maxAgeSeconds))>>
          ELSE IF Len(nc) > 0 THEN <<Response(nc[Len(nc)].data, Directive(cc, cc.maxAgeSeconds))>>
          ELSE <<Response(app[1].defaultConfig.data, Directive(cc, cc.defaultMaxAgeSeconds))>>

\* The resolution of a version against the application a lookup returned.
Resolve(app, version, cc) ==
  IF app = <<>> THEN <<>>
  ELSE IF app[1].archived THEN <<>>
  ELSE LET nc == app[1].namedConfigs
           i == SelectIdx(nc, LAMBDA c : Matches(c, version))
       IN IF i > 0 THEN <<Response(nc[i].data, Directive(cc, cc.maxAgeSeconds))>>
          ELSE <<Response(app[1].defaultConfig.data, Directive(cc, cc.defaultMaxAgeSeconds))>>

getConfig(m, applicationId, version, cc) ==
  Resolve(getApplication(m, applicationId), version, cc)

\* GET /config/:applicationId/:version: status, body and Cache-Control
\* header of the HTTP response.
HttpResponse(status, body, header) == [status |-> status, body |-> body, cacheControl |-> header]

\* Variant: an archived application is answered 410 Gone.
ConfigRoute_Gone(m, applicationId, version, cc) ==
  IF ~SemverValid(version) THEN HttpResponse(400, "Invalid semver version", "")
  ELSE IF MapHas(m, applicationId) /\ MapGet(m, applicationId).archived
       THEN HttpResponse(410, "Application archived", "")
  ELSE LET r == getConfig(m, applicationId, version, cc)
       IN IF r = <<>> THEN HttpResponse(404, "Application not found or archived", "")
          ELSE HttpResponse(200, r[1].data, r[1].cacheControl)

\* Variant: the application is looked up before the version is tested.
ConfigRoute_LookupFirst(m, applicationId, version, cc) ==
  LET r == getConfig(m, applicationId, version, cc)
  IN IF r = <<>> THEN HttpResponse(404, "Application not found or archived", "")
     ELSE IF ~SemverValid(version) THEN HttpResponse(400, "Invalid semver version", "")
     ELSE HttpResponse(200, r[1].data, r[1].cacheControl)

ConfigRoute(m, applicationId, version, cc) ==
  IF ~SemverValid(version) THEN HttpResponse(400, "Invalid semver version", "")
  ELSE LET r == getConfig(m, applicationId, version, cc)
       IN IF r = <<>> THEN HttpResponse(404, "Application not found or archived", "")
          ELSE HttpResponse(200, r[1].data, r[1].cacheControl)

\* ConfigClient.getConfig(version, configName): the response of GET
\* /config/{applicationId}/{version}?name={configName}. The route reads
\* req.params only, so the name of the query string takes no part.
ClientGetConfig(m, applicationId, version, configName, cc) ==
  ConfigRoute(m, applicationId, version, cc)

\* ConfigClient.checkVersion(version, configName): true unless getConfig
\* throws, which it does when the response is not ok.
checkVersion(m, applicationId, version, configName, cc) ==
  ClientGetConfig(m, applicationId, version, configName, cc).status = 200

\* The admin routes: the status res.status(...) is given for the exit of the
\* effect, successStatus being the one the route passes for a success. A
\* defect that carries no _tag (a TypeError) falls through to 500.
ErrorTags ==
  {"ConfigValidationError", "SemverValidationError", "ApplicationNotFoundError",
   "ApplicationAlreadyExistsError", "NamedConfigNotFoundError", "NamedConfigAlreadyExistsError",
   "VersionConflictError", "MongoNetworkError", "MongoAuthError", "WriteConflictError",
   "PoolExhaustedError", "UnexpectedServerError"}

\* Variant: a version conflict is answered like a validation failure.
handleEffect_ConflictIsInvalid(exit, successStatus) ==
  CASE exit.tag = "ok" -> successStatus
    [] exit.tag \in {"ConfigValidationError", "SemverValidationError", "VersionConflictError"} -> 400
    [] exit.tag \in {"ApplicationNotFoundError", "NamedConfigNotFoundError"} -> 404
    [] exit.tag \in {"ApplicationAlreadyExistsError", "NamedConfigAlreadyExistsError",
                     "WriteConflictError"} -> 409
    [] exit.tag \in {"MongoNetworkError", "MongoAuthError", "PoolExhaustedError"} -> 503
    [] OTHER -> 500

handleEffect(exit, successStatus) ==
  CASE exit.tag = "ok" -> successStatus
    [] exit.tag = "ConfigValidationError" -> 400
    [] exit.tag = "SemverValidationError" -> 400
    [] exit.tag = "ApplicationNotFoundError" -> 404
    [] exit.tag = "ApplicationAlreadyExistsError" -> 409
    [] exit.tag = "NamedConfigNotFoundError" -> 404
    [] exit.tag = "NamedConfigAlreadyExistsError" -> 409
    [] exit.tag = "VersionConflictError" -> 409
    [] exit.tag = "MongoNetworkError" -> 503
    [] exit.tag = "MongoAuthError" -> 503
    [] exit.tag = "WriteConflictError" -> 409
    [] exit.tag = "PoolExhaustedError" -> 503
    [] exit.tag = "UnexpectedServerError" -> 500
    [] OTHER -> 500

\* The status each admin route passes to handleEffect for a success.
SuccessStatus(op) ==
  CASE op \in {"createApplication", "createNamedConfig"} -> 201
    [] op \in {"archiveApplication", "unarchiveApplication", "deleteNamedConfig"} -> 204
    [] OTHER -> 200

\* The status the admin route of operation r.op answers when the service
\* returned r.
AdminRoute(r) == handleEffect(r.exit, SuccessStatus(r.op))

\* { ...app, namedConfigs: nc }: an update object carrying every field.
WithNamedConfigs(app, nc) == Partial(FieldNames, [app EXCEPT !.namedConfigs = nc])

\* Variant: the configuration is stored with the data the default has.
createNamedConfig_DefaultData(m, applicationId, name, data, versions, t) ==
  LET app == getApplication(m, applicationId)
  IN IF app = <<>> THEN Outcome(ApplicationNotFoundError, m, <<>>)
     ELSE IF ObjTruthy(app[1].namedConfigs, name) THEN Outcome(NamedConfigAlreadyExistsError, m, <<>>)
     ELSE IF validateSemverVersions(versions).tag # "ok" THEN Outcome(validateSemverVersions(versions), m, <<>>)
     ELSE updateApplication(m, applicationId,
            WithNamedConfigs(app[1], ObjSet(app[1].namedConfigs,
                                            Entry(name, app[1].defaultConfig.data, versions))), t)

\* Variant: the presence test is missing, an existing configuration is
\* replaced.
createNamedConfig_Upserts(m, applicationId, name, data, versions, t) ==
  LET app == getApplication(m, applicationId)
  IN IF app = <<>> THEN Outcome(ApplicationNotFoundError, m, <<>>)
     ELSE IF validateSemverVersions(versions).tag # "ok" THEN Outcome(validateSemverVersions(versions), m, <<>>)
     ELSE updateApplication(m, applicationId,
            WithNamedConfigs(app[1], ObjSet(app[1].namedConfigs, Entry(name, data, versions))), t)

createNamedConfig(m, applicationId, name, data, versions, t) ==
  LET app == getApplication(m, applicationId)
  IN IF app = <<>> THEN Outcome(ApplicationNotFoundError, m, <<>>)
     ELSE IF ObjTruthy(app[1].namedConfigs, name) THEN Outcome(NamedConfigAlreadyExistsError, m, <<>>)
     ELSE IF validateSemverVersions(versions).tag # "ok" THEN Outcome(validateSemverVersions(versions), m, <<>>)
     ELSE updateApplication(m, applicationId,
            WithNamedConfigs(app[1], ObjSet(app[1].namedConfigs, Entry(name, data, versions))), t)

updateNamedConfig(m, applicationId, name, data, versions, t) ==
  LET app == getApplication(m, applicationId)
  IN IF app = <<>> THEN Outcome(ApplicationNotFoundError, m, <<>>)
     ELSE IF ~ObjTruthy(app[1].namedConfigs, name) THEN Outcome(NamedConfigNotFoundError, m, <<>>)
     ELSE IF validateSemverVersions(versions).tag # "ok" THEN Outcome(validateSemverVersions(versions), m, <<>>)
     ELSE updateApplication(m, applicationId,
            WithNamedConfigs(app[1], ObjSet(app[1].namedConfigs, Entry(name, data, versions))), t)

deleteNamedConfig(m, applicationId, name, t) ==
  LET app == getApplication(m, applicationId)
  IN IF app = <<>> THEN Outcome(ApplicationNotFoundError, m, <<>>)
     ELSE IF ~ObjTruthy(app[1].namedConfigs, name) THEN Outcome(NamedConfigNotFoundError, m, <<>>)
     ELSE LET updated == [app[1] EXCEPT !.namedConfigs = ObjDelete(app[1].namedConfigs, name),
                                        !.lastUpdated = t]
          IN Outcome(Ok, MapSet(m, applicationId, updated), <<updated>>)

\* ------------------------------------------------- the MongoDB-backed registry
\* The collection is the sequence of its documents in natural order. A
\* document is modelled without its _id, which the service strips or never
\* reads. Every backend access takes a flag ok: FALSE is a rejected promise,
\* which the service turns into null (reads) or false (writes).

\* collection.findOne({ applicationId }), with catch: () => null.
findOne(coll, applicationId, ok) ==
  LET i == SelectIdx(coll, LAMBDA d : d.applicationId = applicationId)
  IN IF ok /\ i > 0 THEN <<coll[i]>> ELSE <<>>

\* collection.find({}).toArray(), with catch: () => [].
find(coll, ok) == IF ok THEN coll ELSE <<>>

insertOne(coll, doc, ok) == IF ok THEN Append(coll, doc) ELSE coll

\* collection.replaceOne({ applicationId }, doc): the first match is replaced.
replaceOne(coll, applicationId, doc, ok) ==
  LET i == SelectIdx(coll, LAMBDA d : d.applicationId = applicationId)
  IN IF ok /\ i > 0 THEN [coll EXCEPT ![i] = doc] ELSE coll

\* collection.updateOne({ applicationId }, { $set: { archived, lastUpdated } }).
updateOne(coll, applicationId, flag, t, ok) ==
  LET i == SelectIdx(coll, LAMBDA d : d.applicationId = applicationId)
  IN IF ok /\ i > 0 THEN [coll EXCEPT ![i] = [@ EXCEPT !.archived = flag, !.lastUpdated = t]]
     ELSE coll

\* A call of a client: where it stands (idle, or the backend access it is
\* about to make), the operation and its arguments, what the pending access
\* needs, and once idle again what the operation returned.
NoPartial == [fields |-> {}, val |-> [applicationId |-> "", archived |-> FALSE, schema |-> ObjectSchema({}),
                                      defaultConfig |-> [data |-> {}], namedConfigs |-> <<>>,
                                      lastUpdated |-> 0]]
Call(pc, op, key, arg, update, doc, flag, exit, apps, response) ==
  [pc |-> pc, op |-> op, key |-> key, arg |-> arg, update |-> update, doc |-> doc, flag |-> flag,
   exit |-> exit, apps |-> apps, response |-> response]
Done(op, key, arg, exit, apps, response) ==
  Call("idle", op, key, arg, NoPartial, NoPartial.val, FALSE, exit, apps, response)
Pending(pc, op, key, arg, update, doc, flag) ==
  Call(pc, op, key, arg, update, doc, flag, Ok, <<>>, <<>>)

\* The effect of one step of a call: the collection, the call, and whether
\* the step reached the backend.
Access(coll, call, accessed) == [coll |-> coll, call |-> call, accessed |-> accessed]

mListApplications(coll, ok) ==
  Access(coll, Done("listApplications", "", "", Ok, find(coll, ok), <<>>), TRUE)

\* Variant: a failed read is reported to the caller.
mGetApplication_Propagates(coll, applicationId, ok) ==
  Access(coll, Done("getApplication", applicationId, "",
                    IF ok THEN Ok ELSE Exit("MongoNetworkError", <<>>, "", "", "", ""),
                    findOne(coll, applicationId, ok), <<>>), TRUE)

mGetApplication(coll, applicationId, ok) ==
  Access(coll, Done("getApplication", applicationId, "", Ok, findOne(coll, applicationId, ok), <<>>), TRUE)

mGetConfig(coll, applicationId, version, cc, ok) ==
  Access(coll, Done("getConfig", applicationId, version, Ok, <<>>,
                    Resolve(findOne(coll, applicationId, ok), version, cc)), TRUE)

\* createApplication up to its findOne; the insertOne is pending.
mCreateApplication(coll, config, ok) ==
  LET v == validateApplicationConfig(config)
      op == "createApplication"
  IN IF v.tag # "ok" THEN Access(coll, Done(op, config.applicationId, "", v, <<>>, <<>>), FALSE)
     ELSE IF findOne(coll, config.applicationId, ok) # <<>>
          THEN Access(coll, Done(op, config.applicationId, "", ApplicationAlreadyExistsError, <<>>, <<>>), TRUE)
     ELSE Access(coll, Pending("insert", op, config.applicationId, "", NoPartial, config, FALSE), TRUE)

\* The insertOne of createApplication: success is returned either way.
mInsert(coll, call, t, ok) ==
  LET toInsert == [call.doc EXCEPT !.lastUpdated = t]
  IN Access(insertOne(coll, toInsert, ok),
            Done(call.op, call.key, call.arg, Ok, <<toInsert>>, <<>>), TRUE)

\* updateApplication up to its findOne and validation; the replaceOne is
\* pending. op is the operation of the caller, which may be a
\* named-configuration operation delegating to updateApplication.
mUpdateApplication(coll, op, applicationId, arg, update, t, ok) ==
  LET existing == findOne(coll, applicationId, ok)
  IN IF existing = <<>>
     THEN Access(coll, Done(op, applicationId, arg, ApplicationNotFoundError, <<>>, <<>>), TRUE)
     ELSE LET updated == Merge(existing[1], update, t)
              v == IF NeedsValidation(update) THEN validateApplicationConfig(updated) ELSE Ok
          IN IF v.tag # "ok" THEN Access(coll, Done(op, applicationId, arg, v, <<>>, <<>>), TRUE)
             ELSE Access(coll, Pending("replace", op, applicationId, arg, NoPartial, updated, FALSE), TRUE)

\* The replaceOne of updateApplication and deleteNamedConfig.
mReplace(coll, call, ok) ==
  Access(replaceOne(coll, call.key, call.doc, ok),
         Done(call.op, call.key, call.arg, Ok, <<call.doc>>, <<>>), TRUE)

\* archiveApplication / unarchiveApplication up to the findOne.
mSetArchived(coll, op, applicationId, flag, ok) ==
  IF findOne(coll, applicationId, ok) = <<>>
  THEN Access(coll, Done(op, applicationId, "", ApplicationNotFoundError, <<>>, <<>>), TRUE)
  ELSE Access(coll, Pending("set", op, applicationId, "", NoPartial, NoPartial.val, flag), TRUE)

mArchiveApplication(coll, applicationId, ok) ==
  mSetArchived(coll, "archiveApplication", applicationId, TRUE, ok)

mUnarchiveApplication(coll, applicationId, ok) ==
  mSetArchived(coll, "unarchiveApplication", applicationId, FALSE, ok)

\* The updateOne of archiveApplication / unarchiveApplication.
mSet(coll, call, t, ok) ==
  Access(updateOne(coll, call.key, call.flag, t, ok),
         Done(call.op, call.key, call.arg, Ok, <<>>, <<>>), TRUE)

\* createNamedConfig / updateNamedConfig up to the call of updateApplication.
mSetNamedConfig(coll, op, applicationId, name, data, versions, ok) ==
  LET app == findOne(coll, applicationId, ok)
      present == op = "updateNamedConfig"
  IN IF app = <<>>
     THEN Access(coll, Done(op, applicationId, name, ApplicationNotFoundError, <<>>, <<>>), TRUE)
     ELSE IF ObjTruthy(app[1].namedConfigs, name) # present
          THEN Access(coll, Done(op, applicationId, name,
                                 IF present THEN NamedConfigNotFoundError
                                 ELSE NamedConfigAlreadyExistsError, <<>>, <<>>), TRUE)
     ELSE IF validateSemverVersions(versions).tag # "ok"
          THEN Access(coll, Done(op, applicationId, name, validateSemverVersions(versions), <<>>, <<>>), TRUE)
     ELSE Access(coll, Pending("update", op, applicationId, name,
                               WithNamedConfigs(app[1], ObjSet(app[1].namedConfigs, Entry(name, data, versions))),
                               NoPartial.val, FALSE), TRUE)

mCreateNamedConfig(coll, applicationId, name, data, versions, ok) ==
  mSetNamedConfig(coll, "createNamedConfig", applicationId, name, data, versions, ok)

mUpdateNamedConfig(coll, applicationId, name, data, versions, ok) ==
  mSetNamedConfig(coll, "updateNamedConfig", applicationId, name, data, versions, ok)

\* deleteNamedConfig up to its findOne; the replaceOne is pending.
mDeleteNamedConfig(coll, applicationId, name, t, ok) ==
  LET app == findOne(coll, applicationId, ok)
      op == "deleteNamedConfig"
  IN IF app = <<>>
     THEN Access(coll, Done(op, applicationId, name, ApplicationNotFoundError, <<>>, <<>>), TRUE)
     ELSE IF ~ObjTruthy(app[1].namedConfigs, name)
          THEN Access(coll, Done(op, applicationId, name, NamedConfigNotFoundError, <<>>, <<>>), TRUE)
     ELSE Access(coll, Pending("replace", op, applicationId, name, NoPartial,
                               [app[1] EXCEPT !.namedConfigs = ObjDelete(app[1].namedConfigs, name),
                                              !.lastUpdated = t], FALSE), TRUE)

\* The next backend access of a call in flight.
mContinue(coll, call, t, ok) ==
  CASE call.pc = "update" -> mUpdateApplication(coll, call.op, call.key, call.arg, call.update, t, ok)
    [] call.pc = "insert" -> mInsert(coll, call, t, ok)
    [] call.pc = "replace" -> mReplace(coll, call, ok)
    [] call.pc = "set" -> mSet(coll, call, t, ok)
    [] OTHER -> Access(coll, call, FALSE)

\* A call run to its end with no other call in between and no failure.
RunToEnd(a, t) ==
  LET b == mContinue(a.coll, a.call, t, TRUE)
  IN mContinue(b.coll, b.call, t, TRUE)

\* ------------------------------------------------------------------ inputs
DataValues == {{}, PropSet}
RequestVersions == {"1.0.0", "1.2.0"}

\* The (data, versions) bodies createNamedConfig and updateNamedConfig are
\* called with: two with exact versions that 1.0.0 satisfies, one with a
\* range, one with a token that is no version, one that lists a version
\* twice.
RepeatedToken == [data |-> PropSet, versions |-> <<"2.0.0", "2.0.0">>]
NamedConfigValues ==
  { [data |-> PropSet, versions |-> <<"1.0.0">>],
    [data |-> {}, versions |-> <<"v1.0.0">>],
    [data |-> PropSet, versions |-> <<"^1.0.0">>],
    [data |-> PropSet, versions |-> <<"junk">>],
    RepeatedToken }
StaleTimes == {0}

\* Named-configuration maps a caller sends: none; two configurations with
\* distinct tokens that both match 1.0.0; two whose data lacks p and q, one
\* with a token that is no version; two that claim the same token.
NoConfigs == <<>>
OverlappingConfigs ==
  ObjFromEntries(<<Entry("a", PropSet, <<"1.0.0">>), Entry("b", PropSet, <<"^1.0.0">>)>>)
PoorConfigs ==
  ObjFromEntries(<<Entry("a", {}, <<"junk">>), Entry("b", {}, <<"2.0.0">>)>>)
ConflictingConfigs ==
  ObjFromEntries(<<Entry("a", {}, <<"1.0.0">>), Entry("b", {}, <<"1.0.0">>)>>)
NamedConfigObjects == {NoConfigs, OverlappingConfigs, PoorConfigs, ConflictingConfigs}

\* The (schema, default data, named configurations) of the applications a
\* caller asks to create: three that pass validation, then a malformed
\* schema, a default that lacks required properties, a null schema, named
\* configurations that lack required properties, and named configurations
\* that claim the same token.
Template(schema, data, nc) == [schema |-> schema, data |-> data, namedConfigs |-> nc]
CreateTemplates ==
  { Template(SchemaAny, {}, NoConfigs),
    Template(SchemaAny, {}, PoorConfigs),
    Template(SchemaPQ, PropSet, OverlappingConfigs),
    Template(SchemaMalformed, {}, NoConfigs),
    Template(SchemaPQ, {}, NoConfigs),
    Template(SchemaNull, {}, NoConfigs),
    Template(SchemaPQ, PropSet, PoorConfigs),
    Template(SchemaAny, {}, ConflictingConfigs) }

CreatePayloads ==
  { AppConfig(id, FALSE, c.schema, c.data, c.namedConfigs, t) :
      id \in AppIds, c \in CreateTemplates, t \in StaleTimes }
  \cup { AppConfig(BlankId, FALSE, SchemaAny, {}, NoConfigs, t) : t \in StaleTimes }

BlankConfig == AppConfig("", FALSE, SchemaAny, {}, <<>>, 0)

UpdatePartials ==
  {Partial({"applicationId"}, [BlankConfig EXCEPT !.applicationId = id]) : id \in AppIds}
  \cup {Partial({"archived"}, [BlankConfig EXCEPT !.archived = FALSE])}
  \cup {Partial({"schema"}, [BlankConfig EXCEPT !.schema = sc]) : sc \in SchemaValues}
  \cup {Partial({"defaultConfig"}, [BlankConfig EXCEPT !.defaultConfig = [data |-> d]]) : d \in DataValues}
  \cup {Partial({"namedConfigs"}, [BlankConfig EXCEPT !.namedConfigs = nc]) : nc \in NamedConfigObjects}
  \cup {Partial({"schema", "defaultConfig", "lastUpdated"},
                [BlankConfig EXCEPT !.schema = sc, !.defaultConfig = [data |-> PropSet]]) :
            sc \in {SchemaPQ, SchemaNull}}

\* The cacheControl option the service is constructed with: absent, or two
\* different durations.
CacheControls == {NoCacheControl, CacheControl(2, 1)}

\* The clients of the MongoDB-backed service, and a client with no call in
\* flight.
Clients == {"c1", "c2"}
Idle == Done("none", "", "", Ok, <<>>, <<>>)

\* Versions a consumer asks GET /config for, one of them no version and one
\* a range, and an applicationId no one creates.
RouteVersions == RequestVersions \cup {"junk", "^1.0.0"}
UnknownId == "zz"

\* What the clients of the MongoDB-backed service send: one application,
\* valid or with a default that lacks required properties, a new default,
\* and two named configurations with different tokens.
MongoIds == {"a1"}
MongoCreatePayloads ==
  { AppConfig(id, FALSE, c.schema, c.data, NoConfigs, t) :
      id \in MongoIds, c \in {Template(SchemaAny, {}, NoConfigs), Template(SchemaPQ, {}, NoConfigs)},
      t \in StaleTimes }
MongoPartials == {Partial({"defaultConfig"}, [BlankConfig EXCEPT !.defaultConfig = [data |-> PropSet]])}
MongoNames == {"a", "b"}
MongoNamedValues ==
  { [data |-> PropSet, versions |-> <<"1.0.0">>],
    [data |-> {}, versions |-> <<"1.2.0">>] }
MongoVersions == {"1.0.0"}

\* What is sent to both services when they are run side by side.
EquivCreatePayloads ==
  { AppConfig(id, FALSE, c.schema, c.data, c.namedConfigs, t) :
      id \in AppIds,
      c \in {Template(SchemaAny, {}, NoConfigs), Template(SchemaPQ, PropSet, OverlappingConfigs),
             Template(SchemaPQ, {}, NoConfigs)},
      t \in StaleTimes }
EquivPartials ==
  {Partial({"applicationId"}, [BlankConfig EXCEPT !.applicationId = id]) : id \in AppIds}
  \cup {Partial({"defaultConfig"}, [BlankConfig EXCEPT !.defaultConfig = [data |-> PropSet]])}
  \cup {Partial({"schema"}, [BlankConfig EXCEPT !.schema = SchemaNull])}
EquivNames == {"1", "a", "constructor"}

\* ------------------------------------------------- the autosave hook
\* What a render of NamedConfigEdit closes saveConfig over: the data and
\* validJson state of that render.
Closure(d, valid) == [data |-> d, validJson |-> valid]
\* The body saveConfig sends: the data of its closure and versionsRef.current
\* at the time of the call.
Body(d, versions) == [data |-> d, versions |-> versions]
\* A pending setTimeout(executeSave, delay): its id and the closure of the
\* executeSave it will call.
Timeout(id, closure) == [id |-> id, closure |-> closure]

TimeoutIds == 1..MaxTimeouts
Timeouts ==
  {Timeout(id, Closure(d, valid)) : id \in TimeoutIds, d \in 0..MaxEdits, valid \in BOOLEAN}

\* clearTimeout(id): a no-op for an id that is not pending.
clearTimeout(pending, id) == {t \in pending : t.id # id}

\* The id setTimeout returns: one no pending timeout has and the ref does
\* not hold.
FreshId(pending, ref) ==
  CHOOSE id \in TimeoutIds :
    /\ id # ref /\ \A t \in pending : t.id # id
    /\ \A other \in TimeoutIds :
         (other # ref /\ \A t \in pending : t.id # other) => id <= other

CanSetTimeout(pending, ref) ==
  \E id \in TimeoutIds : id # ref /\ \A t \in pending : t.id # id

\* triggerSave: clears the timeout the ref holds and sets a new one.
triggerSave(pending, ref, closure) ==
  LET id == FreshId(pending, ref)
  IN [timeouts |-> clearTimeout(pending, ref) \cup {Timeout(id, closure)}, timeoutRef |-> id]

\* Variant: executeSave without the isSavingRef test.
executeSave_NoGuard(saving, st, closure, versions) ==
  IF ~closure.validJson
  THEN [isSavingRef |-> FALSE, status |-> "error", started |-> TRUE, request |-> <<>>]
  ELSE [isSavingRef |-> TRUE, status |-> "saving", started |-> TRUE,
        request |-> <<Body(closure.data, versions)>>]

\* executeSave, up to the await of saveFunction(): whether saveFunction was
\* called, the request it has in flight, and the ref and status it leaves.
\* saveConfig throws before the fetch when validJson is false, and the
\* catch and finally blocks run before any other event.
executeSave(saving, st, closure, versions) ==
  IF saving
  THEN [isSavingRef |-> TRUE, status |-> st, started |-> FALSE, request |-> <<>>]
  ELSE IF ~closure.validJson
       THEN [isSavingRef |-> FALSE, status |-> "error", started |-> TRUE, request |-> <<>>]
       ELSE [isSavingRef |-> TRUE, status |-> "saving", started |-> TRUE,
             request |-> <<Body(closure.data, versions)>>]

RemoveAt(s, i) == [j \in 1..(Len(s) - 1) |-> IF j < i THEN s[j] ELSE s[j + 1]]

\* owed: history variable, a triggerSave, saveOnBlur or executeSave call was
\*   made and no saveFunction call has started since.
\* burst: history variable, the triggerSave calls made one after the other
\*   while a timeout was pending (2 stands for two or more), and the
\*   saveFunction calls their timeouts have started.
HookInit ==
  /\ isSavingRef = FALSE
  /\ timeoutRef = 0
  /\ timeouts = {}
  /\ saveStatus = "idle"
  /\ idleTimeout = FALSE
  /\ formData = 0
  /\ versionsRef = 0
  /\ validJson = TRUE
  /\ requests = <<>>
  /\ server = Body(0, 0)
  /\ owed = FALSE
  /\ burst = [calls |-> 0, starts |-> 0]

\* ------------------------------------------------------------------- state
\* store: the Ref<Map<string, AppConfig>> of the service.
\* now: the clock new Date() reads; it advances with every successful
\*   mutation.
\* result: what the last operation returned to its caller.
\* inserted: history variable, for each store key the names of its named
\*   configurations in the order they were added.
Init ==
  /\ store = <<>>
  /\ now = 1
  /\ result = Result("none", "", "", Ok, <<>>, <<>>)
  /\ inserted = [id \in AppIds |-> <<>>]
  /\ cacheControl \in CacheControls
  /\ collection = <<>>
  /\ calls = [c \in Clients |-> Idle]
  /\ failures = 0
  /\ HookInit

\* The clock after an operation that exited with exit.
Tick(exit) == IF exit.tag = "ok" THEN now + 1 ELSE now

ListApplications ==
  /\ result' = Result("listApplications", "", "", Ok, listApplications(store), <<>>)
  /\ UNCHANGED <<store, now, inserted, cacheControl, durable, hook>>

GetApplication(applicationId) ==
  /\ result' = Result("getApplication", applicationId, "", Ok, getApplication(store, applicationId), <<>>)
  /\ UNCHANGED <<store, now, inserted, cacheControl, durable, hook>>

GetConfig(applicationId, version) ==
  /\ result' = Result("getConfig", applicationId, version, Ok, <<>>, getConfig(store, applicationId, version, cacheControl))
  /\ UNCHANGED <<store, now, inserted, cacheControl, durable, hook>>

CreateApplication(config) ==
  /\ now <= MaxClock
  /\ LET o == createApplication(store, config, now)
     IN /\ store' = o.store
        /\ now' = Tick(o.exit)
        /\ result' = Result("createApplication", config.applicationId, "", o.exit, o.apps, <<>>)
        /\ inserted' = IF o.exit.tag = "ok"
                       THEN [inserted EXCEPT ![config.applicationId] = ObjKeys(config.namedConfigs)]
                       ELSE inserted
        /\ UNCHANGED <<cacheControl, durable, hook>>

UpdateApplication(applicationId, update) ==
  /\ now <= MaxClock
  /\ LET o == updateApplication(store, applicationId, update, now)
     IN /\ store' = o.store
        /\ now' = Tick(o.exit)
        /\ result' = Result("updateApplication", applicationId, "", o.exit, o.apps, <<>>)
        /\ inserted' = IF o.exit.tag = "ok" /\ "namedConfigs" \in update.fields
                       THEN [inserted EXCEPT ![applicationId] = ObjKeys(update.val.namedConfigs)]
                       ELSE inserted
        /\ UNCHANGED <<cacheControl, durable, hook>>

ArchiveApplication(applicationId) ==
  /\ now <= MaxClock
  /\ LET o == archiveApplication(store, applicationId, now)
     IN /\ store' = o.store
        /\ now' = Tick(o.exit)
        /\ result' = Result("archiveApplication", applicationId, "", o.exit, o.apps, <<>>)
        /\ UNCHANGED <<inserted, cacheControl, durable, hook>>

UnarchiveApplication(applicationId) ==
  /\ now <= MaxClock
  /\ LET o == unarchiveApplication(store, applicationId, now)
     IN /\ store' = o.store
        /\ now' = Tick(o.exit)
        /\ result' = Result("unarchiveApplication", applicationId, "", o.exit, o.apps, <<>>)
        /\ UNCHANGED <<inserted, cacheControl, durable, hook>>

CreateNamedConfig(applicationId, name, data, versions) ==
  /\ now <= MaxClock
  /\ LET o == createNamedConfig(store, applicationId, name, data, versions, now)
     IN /\ store' = o.store
        /\ now' = Tick(o.exit)
        /\ result' = Result("createNamedConfig", applicationId, name, o.exit, o.apps, <<>>)
        /\ inserted' = IF o.exit.tag = "ok"
                       THEN [inserted EXCEPT ![applicationId] = Append(@, name)]
                       ELSE inserted
        /\ UNCHANGED <<cacheControl, durable, hook>>

UpdateNamedConfig(applicationId, name, data, versions) ==
  /\ now <= MaxClock
  /\ LET o == updateNamedConfig(store, applicationId, name, data, versions, now)
     IN /\ store' = o.store
        /\ now' = Tick(o.exit)
        /\ result' = Result("updateNamedConfig", applicationId, name, o.exit, o.apps, <<>>)
        /\ inserted' = IF o.exit.tag = "ok" /\ name \notin Range(inserted[applicationId])
                       THEN [inserted EXCEPT ![applicationId] = Append(@, name)]
                       ELSE inserted
        /\ UNCHANGED <<cacheControl, durable, hook>>

DeleteNamedConfig(applicationId, name) ==
  /\ now <= MaxClock
  /\ LET o == deleteNamedConfig(store, applicationId, name, now)
     IN /\ store' = o.store
        /\ now' = Tick(o.exit)
        /\ result' = Result("deleteNamedConfig", applicationId, name, o.exit, o.apps, <<>>)
        /\ inserted' = IF o.exit.tag = "ok"
                       THEN [inserted EXCEPT ![applicationId] = SelectSeq(@, LAMBDA n : n # name)]
                       ELSE inserted
        /\ UNCHANGED <<cacheControl, durable, hook>>

Next ==
  \/ ListApplications
  \/ \E id \in AppIds : GetApplication(id)
  \/ \E id \in AppIds, v \in RequestVersions : GetConfig(id, v)
  \/ \E config \in CreatePayloads : CreateApplication(config)
  \/ \E id \in AppIds, update \in UpdatePartials : UpdateApplication(id, update)
  \/ \E id \in AppIds : ArchiveApplication(id)
  \/ \E id \in AppIds : UnarchiveApplication(id)
  \/ \E id \in AppIds, name \in ConfigNames, c \in NamedConfigValues :
       CreateNamedConfig(id, name, c.data, c.versions)
  \/ \E id \in AppIds, name \in ConfigNames, c \in NamedConfigValues :
       UpdateNamedConfig(id, name, c.data, c.versions)
  \/ \E id \in AppIds, name \in ConfigNames : DeleteNamedConfig(id, name)

Spec == Init /\ [][Next]_vars

\* ---------------------------------------- the MongoDB-backed service at work
\* Each client has at most one call in flight; the calls of different
\* clients interleave at their backend accesses. The clock ticks when a
\* mutating call begins.
MongoStep(p, a, ok, t) ==
  /\ ok \/ failures < MaxFailures
  /\ ok \/ a.accessed
  /\ collection' = a.coll
  /\ calls' = [calls EXCEPT ![p] = a.call]
  /\ failures' = IF ok THEN failures ELSE failures + 1
  /\ now' = t
  /\ UNCHANGED <<store, result, inserted, cacheControl, hook>>

MongoListApplications(p, ok) ==
  /\ calls[p].pc = "idle"
  /\ MongoStep(p, mListApplications(collection, ok), ok, now)

MongoGetApplication(p, id, ok) ==
  /\ calls[p].pc = "idle"
  /\ MongoStep(p, mGetApplication(collection, id, ok), ok, now)

MongoGetConfig(p, id, version, ok) ==
  /\ calls[p].pc = "idle"
  /\ MongoStep(p, mGetConfig(collection, id, version, cacheControl, ok), ok, now)

MongoCreateApplication(p, config, ok) ==
  /\ calls[p].pc = "idle" /\ now <= MaxCalls
  /\ MongoStep(p, mCreateApplication(collection, config, ok), ok, now + 1)

MongoUpdateApplication(p, id, update, ok) ==
  /\ calls[p].pc = "idle" /\ now <= MaxCalls
  /\ MongoStep(p, mUpdateApplication(collection, "updateApplication", id, "", update, now, ok), ok, now + 1)

MongoArchiveApplication(p, id, ok) ==
  /\ calls[p].pc = "idle" /\ now <= MaxCalls
  /\ MongoStep(p, mArchiveApplication(collection, id, ok), ok, now + 1)

MongoUnarchiveApplication(p, id, ok) ==
  /\ calls[p].pc = "idle" /\ now <= MaxCalls
  /\ MongoStep(p, mUnarchiveApplication(collection, id, ok), ok, now + 1)

MongoCreateNamedConfig(p, id, name, data, versions, ok) ==
  /\ calls[p].pc = "idle" /\ now <= MaxCalls
  /\ MongoStep(p, mCreateNamedConfig(collection, id, name, data, versions, ok), ok, now + 1)

MongoUpdateNamedConfig(p, id, name, data, versions, ok) ==
  /\ calls[p].pc = "idle" /\ now <= MaxCalls
  /\ MongoStep(p, mUpdateNamedConfig(collection, id, name, data, versions, ok), ok, now + 1)

MongoDeleteNamedConfig(p, id, name, ok) ==
  /\ calls[p].pc = "idle" /\ now <= MaxCalls
  /\ MongoStep(p, mDeleteNamedConfig(collection, id, name, now, ok), ok, now + 1)

\* The pending access of a call in flight: the updateApplication a
\* named-configuration operation delegates to, or a write.
MongoDelegatedUpdate(p, ok) ==
  /\ calls[p].pc = "update"
  /\ MongoStep(p, mContinue(collection, calls[p], now, ok), ok, now)

MongoInsert(p, ok) ==
  /\ calls[p].pc = "insert"
  /\ MongoStep(p, mContinue(collection, calls[p], now, ok), ok, now)

MongoReplace(p, ok) ==
  /\ calls[p].pc = "replace"
  /\ MongoStep(p, mContinue(collection, calls[p], now, ok), ok, now)

MongoSet(p, ok) ==
  /\ calls[p].pc = "set"
  /\ MongoStep(p, mContinue(collection, calls[p], now, ok), ok, now)

MongoNext ==
  \E p \in Clients, ok \in BOOLEAN :
    \/ MongoListApplications(p, ok)
    \/ \E id \in MongoIds : MongoGetApplication(p, id, ok)
    \/ \E id \in MongoIds, v \in MongoVersions : MongoGetConfig(p, id, v, ok)
    \/ \E config \in MongoCreatePayloads : MongoCreateApplication(p, config, ok)
    \/ \E id \in MongoIds, update \in MongoPartials : MongoUpdateApplication(p, id, update, ok)
    \/ \E id \in MongoIds : MongoArchiveApplication(p, id, ok)
    \/ \E id \in MongoIds : MongoUnarchiveApplication(p, id, ok)
    \/ \E id \in MongoIds, name \in MongoNames, c \in MongoNamedValues :
         MongoCreateNamedConfig(p, id, name, c.data, c.versions, ok)
    \/ \E id \in MongoIds, name \in MongoNames, c \in MongoNamedValues :
         MongoUpdateNamedConfig(p, id, name, c.data, c.versions, ok)
    \/ \E id \in MongoIds, name \in MongoNames : MongoDeleteNamedConfig(p, id, name, ok)
    \/ MongoDelegatedUpdate(p, ok)
    \/ MongoInsert(p, ok)
    \/ MongoReplace(p, ok)
    \/ MongoSet(p, ok)

MongoSpec == Init /\ [][MongoNext]_vars

\* --------------------------------------------- the two services side by side
\* Every operation is sent to the in-memory service and, as the call of
\* client c1 run to its end with no failure, to the MongoDB-backed one. The
\* clock ticks with every operation.
EquivStep(op, key, arg, o, response, a) ==
  /\ store' = o.store
  /\ result' = Result(op, key, arg, o.exit, o.apps, response)
  /\ collection' = RunToEnd(a, now).coll
  /\ calls' = [calls EXCEPT !["c1"] = RunToEnd(a, now).call]
  /\ now' = now + 1
  /\ UNCHANGED <<inserted, cacheControl, failures, hook>>

EquivListApplications ==
  /\ now <= MaxClock
  /\ EquivStep("listApplications", "", "", Outcome(Ok, store, listApplications(store)), <<>>,
               mListApplications(collection, TRUE))

EquivGetApplication(id) ==
  /\ now <= MaxClock
  /\ EquivStep("getApplication", id, "", Outcome(Ok, store, getApplication(store, id)), <<>>,
               mGetApplication(collection, id, TRUE))

EquivGetConfig(id, version) ==
  /\ now <= MaxClock
  /\ EquivStep("getConfig", id, version, Outcome(Ok, store, <<>>), getConfig(store, id, version, cacheControl),
               mGetConfig(collection, id, version, cacheControl, TRUE))

EquivCreateApplication(config) ==
  /\ now <= MaxClock
  /\ EquivStep("createApplication", config.applicationId, "", createApplication(store, config, now), <<>>,
               mCreateApplication(collection, config, TRUE))

EquivUpdateApplication(id, update) ==
  /\ now <= MaxClock
  /\ EquivStep("updateApplication", id, "", updateApplication(store, id, update, now), <<>>,
               mUpdateApplication(collection, "updateApplication", id, "", update, now, TRUE))

EquivArchiveApplication(id) ==
  /\ now <= MaxClock
  /\ EquivStep("archiveApplication", id, "", archiveApplication(store, id, now), <<>>,
               mArchiveApplication(collection, id, TRUE))

EquivUnarchiveApplication(id) ==
  /\ now <= MaxClock
  /\ EquivStep("unarchiveApplication", id, "", unarchiveApplication(store, id, now), <<>>,
               mUnarchiveApplication(collection, id, TRUE))

EquivCreateNamedConfig(id, name, data, versions) ==
  /\ now <= MaxClock
  /\ EquivStep("createNamedConfig", id, name, createNamedConfig(store, id, name, data, versions, now), <<>>,
               mCreateNamedConfig(collection, id, name, data, versions, TRUE))

EquivUpdateNamedConfig(id, name, data, versions) ==
  /\ now <= MaxClock
  /\ EquivStep("updateNamedConfig", id, name, updateNamedConfig(store, id, name, data, versions, now), <<>>,
               mUpdateNamedConfig(collection, id, name, data, versions, TRUE))

EquivDeleteNamedConfig(id, name) ==
  /\ now <= MaxClock
  /\ EquivStep("deleteNamedConfig", id, name, deleteNamedConfig(store, id, name, now), <<>>,
               mDeleteNamedConfig(collection, id, name, now, TRUE))

EquivNext ==
  \/ EquivListApplications
  \/ \E id \in AppIds : EquivGetApplication(id)
  \/ \E id \in AppIds, v \in RequestVersions : EquivGetConfig(id, v)
  \/ \E config \in EquivCreatePayloads : EquivCreateApplication(config)
  \/ \E id \in AppIds, update \in EquivPartials : EquivUpdateApplication(id, update)
  \/ \E id \in AppIds : EquivArchiveApplication(id)
  \/ \E id \in AppIds : EquivUnarchiveApplication(id)
  \/ \E id \in AppIds, name \in EquivNames, c \in NamedConfigValues :
       EquivCreateNamedConfig(id, name, c.data, c.versions)
  \/ \E id \in AppIds, name \in EquivNames, c \in NamedConfigValues :
       EquivUpdateNamedConfig(id, name, c.data, c.versions)
  \/ \E id \in AppIds, name \in EquivNames : EquivDeleteNamedConfig(id, name)

EquivSpec == Init /\ [][EquivNext]_vars

\* ------------------------------------------- NamedConfigEdit and its hook
registry == <<store, now, result, inserted, cacheControl>>

\* The history of a triggerSave call.
BurstAfterTrigger ==
  IF timeouts # {}
  THEN [burst EXCEPT !.calls = IF @ < 2 THEN @ + 1 ELSE 2]
  ELSE [calls |-> 1, starts |-> 0]

\* triggerSave() called from a handler of the render whose closure is given.
TriggerSave(closure) ==
  /\ CanSetTimeout(timeouts, timeoutRef)
  /\ LET o == triggerSave(timeouts, timeoutRef, closure)
     IN /\ timeouts' = o.timeouts
        /\ timeoutRef' = o.timeoutRef
  /\ burst' = BurstAfterTrigger
  /\ owed' = TRUE
  /\ UNCHANGED <<isSavingRef, saveStatus, idleTimeout, requests, server>>

\* executeSave() of the render whose closure is given, called directly
\* (called) or by a timeout, when versionsRef.current is versions.
ExecuteSave(closure, versions, called) ==
  LET o == executeSave(isSavingRef, saveStatus, closure, versions)
  IN /\ isSavingRef' = o.isSavingRef
     /\ saveStatus' = o.status
     /\ requests' = requests \o o.request
     /\ owed' = IF o.started THEN FALSE ELSE (called \/ owed)
     /\ burst' = IF o.started /\ ~called THEN [burst EXCEPT !.starts = @ + 1] ELSE burst
     /\ UNCHANGED <<idleTimeout, server>>

\* JsonEditor onChange: the handler belongs to the render before the edit,
\* and so does the executeSave its triggerSave schedules.
ChangeData(isValid) ==
  /\ validJson' = isValid
  /\ IF isValid
     THEN /\ formData < MaxEdits
          /\ formData' = formData + 1
          /\ TriggerSave(Closure(formData, validJson))
     ELSE UNCHANGED <<formData, isSavingRef, timeoutRef, timeouts, saveStatus, idleTimeout,
                      requests, server, owed, burst>>
  /\ UNCHANGED <<versionsRef, registry, durable>>

\* SemverList onChange: the ref is written before triggerSave().
ChangeVersions ==
  /\ versionsRef < MaxEdits
  /\ versionsRef' = versionsRef + 1
  /\ TriggerSave(Closure(formData, validJson))
  /\ UNCHANGED <<formData, validJson, registry, durable>>

\* SemverList onImmediateChange: the ref is written before executeSave().
ImmediateChange ==
  /\ versionsRef < MaxEdits
  /\ versionsRef' = versionsRef + 1
  /\ ExecuteSave(Closure(formData, validJson), versionsRef + 1, TRUE)
  /\ UNCHANGED <<timeoutRef, timeouts, formData, validJson, registry, durable>>

\* onBlur of a field: saveOnBlur().
Blur ==
  /\ timeouts' = clearTimeout(timeouts, timeoutRef)
  /\ ExecuteSave(Closure(formData, validJson), versionsRef, TRUE)
  /\ UNCHANGED <<timeoutRef, formData, versionsRef, validJson, registry, durable>>

\* The delay of a pending timeout has passed.
TimeoutFires(t) ==
  /\ t \in timeouts
  /\ timeouts' = timeouts \ {t}
  /\ ExecuteSave(t.closure, versionsRef, FALSE)
  /\ UNCHANGED <<timeoutRef, formData, versionsRef, validJson, registry, durable>>

\* The fetch of a request resolves with an ok response.
SaveSucceeds(i) ==
  /\ i \in 1..Len(requests)
  /\ server' = requests[i]
  /\ requests' = RemoveAt(requests, i)
  /\ saveStatus' = "saved"
  /\ idleTimeout' = TRUE
  /\ isSavingRef' = FALSE
  /\ UNCHANGED <<timeoutRef, timeouts, formData, versionsRef, validJson, owed, burst, registry, durable>>

\* The fetch of a request rejects, or resolves with an error response.
SaveFails(i) ==
  /\ i \in 1..Len(requests)
  /\ requests' = RemoveAt(requests, i)
  /\ saveStatus' = "error"
  /\ isSavingRef' = FALSE
  /\ UNCHANGED <<timeoutRef, timeouts, idleTimeout, formData, versionsRef, validJson, server,
                 owed, burst, registry, durable>>

\* setTimeout(() => setStatus("idle"), 2000) of an earlier success fires;
\* others of the kind may remain.
IdleTimeoutFires ==
  /\ idleTimeout
  /\ saveStatus' = "idle"
  /\ idleTimeout' \in BOOLEAN
  /\ UNCHANGED <<isSavingRef, timeoutRef, timeouts, formData, versionsRef, validJson, requests,
                 server, owed, burst, registry, durable>>

AutosaveNext ==
  \/ \E isValid \in BOOLEAN : ChangeData(isValid)
  \/ ChangeVersions
  \/ ImmediateChange
  \/ Blur
  \/ \E t \in Timeouts : TimeoutFires(t)
  \/ \E i \in 1..MaxRequests : SaveSucceeds(i)
  \/ \E i \in 1..MaxRequests : SaveFails(i)
  \/ IdleTimeoutFires

AutosaveSpec == Init /\ [][AutosaveNext]_vars

\* Timers fire and saves terminate.
TimersFire == \E t \in Timeouts : TimeoutFires(t)
SavesTerminate == \E i \in 1..MaxRequests : SaveSucceeds(i) \/ SaveFails(i)
AutosaveLive == AutosaveSpec /\ WF_vars(TimersFire) /\ WF_vars(SavesTerminate)

\* ------------------------------------------------- the invariants I1 .. I6
Apps == Range(MapValues(store))

\* I2: the schema passes the meta-schema validation.
SchemaIsValid(schema) == ValidateMetaSchema(schema) = Issues(<<>>)

\* I3, I4: the data validates against the schema.
Conforms(data, schema) == ValidateConfig(data, schema) = Issues(<<>>)

\* The application as a whole satisfies I2 .. I6 and has a non-blank id.
ValidApplication(config) ==
  /\ Trim(config.applicationId) # ""
  /\ SchemaIsValid(config.schema)
  /\ Conforms(config.defaultConfig.data, config.schema)
  /\ \A c \in Range(config.namedConfigs) :
       /\ Conforms(c.data, config.schema)
       /\ \A v \in Range(c.versions) : SemverValidRange(v)
  /\ \A i, j \in 1..Len(config.namedConfigs) :
       i # j => Range(config.namedConfigs[i].versions) \cap Range(config.namedConfigs[j].versions) = {}

\* C1: the applicationId fields of the stored applications are pairwise
\* distinct (I1).
C1_ApplicationIdsDistinct ==
  \A i, j \in 1..Len(store) :
    i # j => store[i].value.applicationId # store[j].value.applicationId

\* C2: every stored application's applicationId field equals the key it was
\* created and is looked up under.
C2_ApplicationIdImmutable ==
  \A i \in 1..Len(store) : store[i].value.applicationId = store[i].key

C5_StoredSchemasValid == \A app \in Apps : SchemaIsValid(app.schema)

\* C6: every stored application's default data and named-configuration data
\* validate against its stored schema (I3, I4).
C6_StoredDataConforms ==
  \A app \in Apps :
    /\ Conforms(app.defaultConfig.data, app.schema)
    /\ \A c \in Range(app.namedConfigs) : Conforms(c.data, app.schema)

\* C7: every version string of every stored named configuration is a valid
\* semantic version or range (I5).
C7_StoredVersionsValid ==
  \A app \in Apps : \A c \in Range(app.namedConfigs) :
    \A v \in Range(c.versions) : SemverValidRange(v)

\* C8: no version token appears in two different named configurations of
\* one stored application (I6).
C8_NoSharedVersionToken ==
  \A app \in Apps : \A i, j \in 1..Len(app.namedConfigs) :
    i # j => Range(app.namedConfigs[i].versions) \cap Range(app.namedConfigs[j].versions) = {}

\* A named-configuration call was rejected for a version conflict and the
\* application it was aimed at keeps its configurations.
C8_Witness ==
  /\ result.op \in {"createNamedConfig", "updateNamedConfig"}
  /\ result.exit.tag = "VersionConflictError"
  /\ result.exit.existingConfigName # result.exit.newConfigName
  /\ Len(MapGet(store, result.key).namedConfigs) > 0

\* Every issue of every named configuration of an application, in stored
\* order.
AllNamedIssues(config) ==
  SeqConcat([i \in 1..Len(config.namedConfigs) |->
               ValidateConfig(config.namedConfigs[i].data, config.schema).errors])

NamedDataViolates(config) ==
  \E c \in Range(config.namedConfigs) : ~Conforms(c.data, config.schema)

\* C9: an update whose merged result has a valid schema and a conforming
\* default configuration, but a named configuration whose data violates the
\* schema, leaves the store unchanged and returns a validation failure that
\* lists every violation of every named configuration, not just those of
\* the first one found.
C9_UpdateListsEveryViolation ==
  [][\A id \in AppIds, update \in UpdatePartials :
       (/\ result'.op = "updateApplication"
        /\ MapHas(store, id)
        /\ SchemaIsValid(Merge(MapGet(store, id), update, now).schema)
        /\ Conforms(Merge(MapGet(store, id), update, now).defaultConfig.data,
                    Merge(MapGet(store, id), update, now).schema)
        /\ NamedDataViolates(Merge(MapGet(store, id), update, now))
        /\ UpdateApplication(id, update))
         => /\ store' = store
            /\ result'.exit.tag = "ConfigValidationError"
            /\ Len(result'.exit.errors) >= Len(AllNamedIssues(Merge(MapGet(store, id), update, now)))
            /\ Range(AllNamedIssues(Merge(MapGet(store, id), update, now))) \subseteq Range(result'.exit.errors)]_vars

\* The names of the configurations matching a version, in the order they
\* were inserted.
InsertedMatching(key, version) ==
  SelectSeq(inserted[key],
    LAMBDA n : \E c \in Range(MapGet(store, key).namedConfigs) : c.name = n /\ Matches(c, version))

NamedData(app, name) ==
  (CHOOSE c \in Range(app.namedConfigs) : c.name = name).data

MatchingConfigs(app, version) == {c \in Range(app.namedConfigs) : Matches(c, version)}

DefaultResponse(app) ==
  Response(app.defaultConfig.data, Directive(cacheControl, cacheControl.defaultMaxAgeSeconds))

ArchivedView(m, id) ==
  /\ MapHas(m, id)
  /\ getApplication(m, id) = <<MapGet(m, id)>>
  /\ MapGet(m, id).archived
  /\ MapGet(m, id) \in Range(listApplications(m))
  /\ \A v \in RequestVersions : getConfig(m, id, v, cacheControl) = <<>>

SuccessOf(r, op, id) == r.op = op /\ r.key = id /\ r.exit.tag = "ok"

\* C12 as stated: a successful archive(id) makes the application archived,
\* and it stays archived (get and list return it with archived = true,
\* getConfig returns null) across every step but a successful unarchive(id).
C12_ArchivedUntilUnarchive ==
  [][\A id \in AppIds :
       /\ SuccessOf(result', "archiveApplication", id) => ArchivedView(store', id)
       /\ (ArchivedView(store, id) /\ ~SuccessOf(result', "unarchiveApplication", id))
            => ArchivedView(store', id)]_vars

\* C12 amended: a successful archive(id) makes the application archived,
\* and it stays archived across every step but a successful unarchive(id)
\* and a successful update(id, partial) whose partial carries archived.
C12_ArchivedUntilFlagWritten ==
  [][\A id \in AppIds :
       /\ SuccessOf(result', "archiveApplication", id) => ArchivedView(store', id)
       /\ (/\ ArchivedView(store, id)
           /\ ~SuccessOf(result', "unarchiveApplication", id)
           /\ ~(/\ SuccessOf(result', "updateApplication", id)
                /\ \E update \in UpdatePartials :
                     "archived" \in update.fields /\ UpdateApplication(id, update)))
            => ArchivedView(store', id)]_vars

\* getConfig has returned null for a stored, archived application that has
\* a named configuration matching the version.
C12_Witness ==
  /\ result.op = "getConfig"
  /\ result.response = <<>>
  /\ MapHas(store, result.key)
  /\ MapGet(store, result.key).archived
  /\ MatchingConfigs(MapGet(store, result.key), result.arg) # {}

\* C13: for every requested version, getConfig and GET /config answer for
\* an archived application exactly what they answer for an applicationId
\* that was never created.
C13_ArchivedLikeUnknown ==
  \A id \in MapKeys(store) : MapGet(store, id).archived =>
    \A v \in RouteVersions :
      /\ getConfig(store, id, v, cacheControl) = getConfig(store, UnknownId, v, cacheControl)
      /\ ConfigRoute(store, id, v, cacheControl) = ConfigRoute(store, UnknownId, v, cacheControl)

\* An archived application is stored which, were it not archived, would
\* serve a named configuration.
C13_Witness ==
  \E id \in MapKeys(store) :
    /\ MapGet(store, id).archived
    /\ \E v \in RequestVersions : MatchingConfigs(MapGet(store, id), v) # {}
    /\ UnknownId \notin MapKeys(store)

\* The named configurations enumerated before the one called name.
StoredBefore(app, name) ==
  {app.namedConfigs[i] : i \in {j \in 1..Len(app.namedConfigs) :
     \E k \in (j + 1)..Len(app.namedConfigs) : app.namedConfigs[k].name = name}}

\* C14: after a successful createNamedConfig(id, name, data, versions) on a
\* non-archived application, getConfig(id, v) for every v of versions
\* returns a named configuration, and returns data when no configuration
\* stored before the new one matches v; before the call, with no matching
\* configuration, the same request returned the default.
C14_NamedConfigTakesOver ==
  [][\A id \in AppIds, name \in ConfigNames, c \in NamedConfigValues :
       (/\ SuccessOf(result', "createNamedConfig", id)
        /\ CreateNamedConfig(id, name, c.data, c.versions)
        /\ ~MapGet(store', id).archived)
         => \A v \in Range(c.versions) :
              LET before == MapGet(store, id)
                  after == MapGet(store', id)
                  r == getConfig(store', id, v, cacheControl)
              IN /\ r # <<>>
                 /\ r[1].cacheControl = Directive(cacheControl, cacheControl.maxAgeSeconds)
                 /\ \E m \in MatchingConfigs(after, v) : r[1].data = m.data
                 /\ (\A b \in StoredBefore(after, name) : ~Matches(b, v)) => r[1].data = c.data
                 /\ MatchingConfigs(before, v) = {}
                      => getConfig(store, id, v, cacheControl) = <<DefaultResponse(before)>>]_vars

\* createNamedConfig has just succeeded on a non-archived application whose
\* default data differs from the new configuration's, which now answers
\* the requests for its version.
C14_Witness ==
  /\ SuccessOf(result, "createNamedConfig", result.key)
  /\ ~MapGet(store, result.key).archived
  /\ \E c \in Range(MapGet(store, result.key).namedConfigs) :
       /\ c.name = result.arg
       /\ c.data # MapGet(store, result.key).defaultConfig.data
       /\ \A v \in Range(c.versions) :
            getConfig(store, result.key, v, cacheControl) =
              <<Response(c.data, Directive(cacheControl, cacheControl.maxAgeSeconds))>>

\* ------------------------------------------------------------ lastUpdated
Mutators ==
  {"createApplication", "updateApplication", "archiveApplication", "unarchiveApplication",
   "createNamedConfig", "updateNamedConfig", "deleteNamedConfig"}

\* C20: every successful mutating operation leaves the application it acted
\* on with lastUpdated equal to the time of the operation, whatever
\* lastUpdated the caller supplied, and never earlier than it was.
C20_LastUpdatedRefreshed ==
  [][\A id \in AppIds :
       (result'.op \in Mutators /\ result'.key = id /\ result'.exit.tag = "ok")
         => /\ MapHas(store', id)
            /\ MapGet(store', id).lastUpdated = now
            /\ now \notin StaleTimes
            /\ MapHas(store, id) => MapGet(store, id).lastUpdated <= MapGet(store', id).lastUpdated]_vars

\* An update has succeeded on an application that was created earlier and
\* the record it returned, which is the stored one, carries the time of the
\* update.
C20_Witness ==
  /\ SuccessOf(result, "updateApplication", result.key)
  /\ result.apps = <<MapGet(store, result.key)>>
  /\ result.apps[1].lastUpdated = now - 1
  /\ result.apps[1].lastUpdated > 1

\* ------------------------------------------- concurrency and backend failure
Docs(coll, id) == {d \in Range(coll) : d.applicationId = id}

\* C15: with no backend failure, the write that completes a createNamedConfig
\* or updateNamedConfig changes nothing of the stored application but the
\* configuration it names: what other calls wrote since this call read (the
\* archived flag, the other named configurations) is still there.
C15_NoLostUpdate ==
  [][\A p \in Clients :
       (/\ calls[p].pc = "replace"
        /\ calls[p].op \in {"createNamedConfig", "updateNamedConfig"}
        /\ failures' = 0
        /\ MongoReplace(p, TRUE))
         => \A before \in Docs(collection, calls[p].key) :
              \E after \in Docs(collection', calls[p].key) :
                /\ after.archived = before.archived
                /\ \A c \in Range(before.namedConfigs) :
                     c.name # calls[p].arg => c \in Range(after.namedConfigs)]_vars

\* C16: with no backend failure, at most one of the clients has a create of
\* an applicationId answered with success, and the collection holds at most
\* one document of that applicationId.
C16_OneCreateWins ==
  failures = 0 =>
    \A id \in MongoIds :
      /\ Cardinality({i \in 1..Len(collection) : collection[i].applicationId = id}) <= 1
      /\ Cardinality({p \in Clients : /\ calls[p].pc = "idle"
                                      /\ calls[p].op = "createApplication"
                                      /\ calls[p].key = id
                                      /\ calls[p].exit.tag = "ok"}) <= 1

\* The error kinds of an unavailable backend.
BackendUnavailable ==
  {"MongoNetworkError", "MongoAuthError", "PoolExhaustedError", "UnexpectedServerError"}

\* The collection holds what a successful mutating call returned.
Persisted(coll, call) ==
  IF call.op \in {"archiveApplication", "unarchiveApplication"}
  THEN \E d \in Docs(coll, call.key) : d.archived = (call.op = "archiveApplication")
  ELSE call.apps # <<>> /\ call.apps[1] \in Range(coll)

\* C17: a mutating call that returns success has persisted the state it
\* returns, and a mutating call one of whose backend accesses fails returns
\* a backend-unavailable error.
C17_PersistOrFail ==
  [][\A p \in Clients :
       /\ (/\ calls[p].pc # "idle"
           /\ calls'[p].pc = "idle"
           /\ calls'[p].op \in Mutators
           /\ calls'[p].exit.tag = "ok")
            => Persisted(collection', calls'[p])
       /\ (/\ calls'[p] # calls[p]
           /\ calls'[p].op \in Mutators
           /\ failures' > failures)
            => /\ calls'[p].pc = "idle"
               /\ calls'[p].exit.tag \in BackendUnavailable]_vars

\* C18: list, get and getConfig always return a value, never an error: get
\* returns a stored application of that applicationId or null when there is
\* none, list returns the documents, and when the backend access fails they
\* return null, the empty list and null.
C18_ReadsNeverFail ==
  [][\A p \in Clients, ok \in BOOLEAN :
       /\ \A id \in MongoIds :
            MongoGetApplication(p, id, ok)
              => /\ calls'[p].exit = Ok
                 /\ IF ok /\ Docs(collection, id) # {}
                    THEN Len(calls'[p].apps) = 1 /\ calls'[p].apps[1] \in Docs(collection, id)
                    ELSE calls'[p].apps = <<>>
       /\ MongoListApplications(p, ok)
            => /\ calls'[p].exit = Ok
               /\ calls'[p].apps = IF ok THEN collection ELSE <<>>
       /\ \A id \in MongoIds, v \in MongoVersions :
            MongoGetConfig(p, id, v, ok)
              => /\ calls'[p].exit = Ok
                 /\ (~ok \/ Docs(collection, id) = {}) => calls'[p].response = <<>>]_vars

\* A get was answered null, without an error, after a backend access failed
\* and while the application is in the collection.
C18_Witness ==
  \E p \in Clients :
    /\ calls[p].pc = "idle"
    /\ calls[p].op = "getApplication"
    /\ calls[p].exit = Ok
    /\ calls[p].apps = <<>>
    /\ failures > 0
    /\ Docs(collection, calls[p].key) # {}

\* C19: after every operation sent to both services, with no backend
\* failure, the two have returned the same result (value or error) and hold
\* the same applications.
C19_BackendsAgree ==
  /\ calls["c1"].pc = "idle"
  /\ calls["c1"].op = result.op
  /\ calls["c1"].exit = result.exit
  /\ calls["c1"].apps = result.apps
  /\ calls["c1"].response = result.response
  /\ collection = MapValues(store)

\* ----------------------------------------------------------- frame effects
\* The store m with the value under key replaced by value, and nothing else
\* touched.
OnlyValueAt(m, key, value) ==
  [i \in 1..Len(m) |-> IF m[i].key = key THEN [key |-> key, value |-> value] ELSE m[i]]

\* The collection with its first document of that applicationId replaced.
OnlyFirstDoc(coll, id, doc) ==
  LET first == {i \in 1..Len(coll) : coll[i].applicationId = id /\ \A j \in 1..(i - 1) : coll[j].applicationId # id}
  IN [i \in 1..Len(coll) |-> IF i \in first THEN doc ELSE coll[i]]

FirstDoc(coll, id) == CHOOSE d \in Docs(coll, id) : \A i, j \in 1..Len(coll) :
                        (coll[i] = d /\ coll[j].applicationId = id) => i <= j

\* C21: archive and unarchive, in both services and whatever the stored
\* content, succeed on an application that is present and change only its
\* archived flag and lastUpdated; on an application that is absent they fail
\* with ApplicationNotFoundError and change nothing.
C21_FlagOnly ==
  \A id \in AppIds, flag \in BOOLEAN :
    LET o == IF flag THEN archiveApplication(store, id, now) ELSE unarchiveApplication(store, id, now)
        a == RunToEnd(IF flag THEN mArchiveApplication(collection, id, TRUE)
                      ELSE mUnarchiveApplication(collection, id, TRUE), now)
    IN /\ IF MapHas(store, id)
          THEN /\ o.exit = Ok
               /\ o.store = OnlyValueAt(store, id, [MapGet(store, id) EXCEPT !.archived = flag, !.lastUpdated = now])
          ELSE o.exit = ApplicationNotFoundError /\ o.store = store
       /\ IF Docs(collection, id) # {}
          THEN /\ a.call.exit = Ok
               /\ a.coll = OnlyFirstDoc(collection, id,
                                        [FirstDoc(collection, id) EXCEPT !.archived = flag, !.lastUpdated = now])
          ELSE a.call.exit = ApplicationNotFoundError /\ a.coll = collection

\* archive has succeeded, in both services, on an application whose stored
\* content does not pass validation, and left that content as it was.
C21_Witness ==
  /\ SuccessOf(result, "archiveApplication", result.key)
  /\ calls["c1"].exit = Ok
  /\ MapGet(store, result.key).archived
  /\ ~ValidApplication(MapGet(store, result.key))
  /\ validateApplicationConfig(MapGet(store, result.key)).tag # "ok"
  /\ \E d \in Docs(collection, result.key) : d.archived /\ d = MapGet(store, result.key)

\* What a successful update(id, partial) leaves: the fields of the partial
\* named in written have the partial's value, the others but lastUpdated
\* their previous value, and the record returned is the one stored under id
\* while the rest of the store is as before.
MergedOnto(m, id, update, written, o) ==
  /\ Len(o.apps) = 1
  /\ \A f \in written : o.apps[1][f] = update.val[f]
  /\ \A f \in FieldNames \ (update.fields \cup {"lastUpdated"}) : o.apps[1][f] = MapGet(m, id)[f]
  /\ o.store = OnlyValueAt(m, id, o.apps[1])

\* C22 as stated: after a successful update every field named in partial
\* has the partial's value, every field not named in partial other than
\* lastUpdated keeps its stored value, and the merged whole is persisted and
\* returned.
C22_UpdateMerges ==
  \A id \in AppIds, update \in UpdatePartials :
    LET o == updateApplication(store, id, update, now)
    IN o.exit.tag = "ok" => MergedOnto(store, id, update, update.fields, o)

\* C22 amended: the same for every field named in partial other than
\* lastUpdated, which is the time of the update whether named or not.
C22_UpdateMergesButTime ==
  \A id \in AppIds, update \in UpdatePartials :
    LET o == updateApplication(store, id, update, now)
    IN o.exit.tag = "ok"
         => /\ MergedOnto(store, id, update, update.fields \ {"lastUpdated"}, o)
            /\ o.apps[1].lastUpdated = now

\* An update has succeeded on an archived application and returned the
\* stored record, which has a schema and default only an update gives to an
\* application without named configurations, and is still archived.
C22_Witness ==
  /\ SuccessOf(result, "updateApplication", result.key)
  /\ result.apps = <<MapGet(store, result.key)>>
  /\ result.apps[1].lastUpdated = now - 1
  /\ result.apps[1].archived
  /\ result.apps[1].schema = SchemaPQ
  /\ result.apps[1].defaultConfig.data = PropSet
  /\ result.apps[1].namedConfigs = <<>>

\* The record app without the named configuration name, the others in their
\* order, written at time t.
Without(app, name, t) ==
  [app EXCEPT !.namedConfigs = SelectSeq(@, LAMBDA c : c.name # name), !.lastUpdated = t]

NotFoundErrors == {ApplicationNotFoundError, NamedConfigNotFoundError}

\* C23: deleteNamedConfig(id, name), in both services, on a name the
\* application has succeeds whatever the stored content and stores and
\* returns the record without that entry, all else but lastUpdated being as
\* before; when the application or the name is absent it fails with a
\* not-found error and changes nothing.
C23_DeleteRemovesOnlyThat ==
  \A id \in AppIds, name \in ConfigNames :
    LET o == deleteNamedConfig(store, id, name, now)
        a == RunToEnd(mDeleteNamedConfig(collection, id, name, now, TRUE), now)
    IN /\ IF MapHas(store, id) /\ ObjHas(MapGet(store, id).namedConfigs, name)
          THEN /\ o.exit = Ok
               /\ o.apps = <<Without(MapGet(store, id), name, now)>>
               /\ o.store = OnlyValueAt(store, id, o.apps[1])
          ELSE o.exit \in NotFoundErrors /\ o.store = store
       /\ IF Docs(collection, id) # {} /\ ObjHas(FirstDoc(collection, id).namedConfigs, name)
          THEN /\ a.call.exit = Ok
               /\ a.call.apps = <<Without(FirstDoc(collection, id), name, now)>>
               /\ a.coll = OnlyFirstDoc(collection, id, a.call.apps[1])
          ELSE a.call.exit \in NotFoundErrors /\ a.coll = collection

\* ------------------------------------------- named-configuration operations
\* C24: createNamedConfig(id, name, ...) fails with ApplicationNotFoundError
\* when the application is absent and with NamedConfigAlreadyExistsError
\* when the application has a configuration of that name, whatever data
\* and versions it is called with, and leaves the store as it was.
C24_CreateNeverOverwrites ==
  \A id \in AppIds, name \in ConfigNames, c \in NamedConfigValues :
    LET o == createNamedConfig(store, id, name, c.data, c.versions, now)
    IN /\ ~MapHas(store, id) => (o.exit = ApplicationNotFoundError /\ o.store = store)
       /\ (MapHas(store, id) /\ ObjHas(MapGet(store, id).namedConfigs, name))
            => (o.exit = NamedConfigAlreadyExistsError /\ o.store = store)

\* createNamedConfig has failed with NamedConfigAlreadyExistsError on a name
\* the application has a configuration of, which is still stored.
C24_Witness ==
  /\ result.op = "createNamedConfig"
  /\ result.exit = NamedConfigAlreadyExistsError
  /\ MapHas(store, result.key)
  /\ ObjHas(MapGet(store, result.key).namedConfigs, result.arg)

\* C25: updateNamedConfig(id, name, ...) on an application that has no
\* configuration of that name fails with NamedConfigNotFoundError and
\* leaves the store as it was; when it succeeds, the named configurations
\* stored are those of before with the data and versions of that one
\* replaced.
C25_UpdateNeverCreates ==
  \A id \in MapKeys(store), name \in ConfigNames, c \in NamedConfigValues :
    LET o == updateNamedConfig(store, id, name, c.data, c.versions, now)
        nc == MapGet(store, id).namedConfigs
    IN /\ ~ObjHas(nc, name) => (o.exit = NamedConfigNotFoundError /\ o.store = store)
       /\ o.exit.tag = "ok"
            => /\ MapHas(o.store, id)
               /\ MapGet(o.store, id).namedConfigs =
                    [i \in 1..Len(nc) |-> IF nc[i].name = name THEN Entry(name, c.data, c.versions) ELSE nc[i]]

\* The named configurations createNamedConfig / updateNamedConfig submit.
Candidate(app, name, c) == ObjSet(app.namedConfigs, Entry(name, c.data, c.versions))

\* Two different configurations of nc, called x and y, claim version.
ClaimedByBoth(nc, x, y, version) ==
  \E i, j \in 1..Len(nc) :
    /\ i # j /\ nc[i].name = x /\ nc[j].name = y
    /\ version \in Range(nc[i].versions) \cap Range(nc[j].versions)

\* C26: when createNamedConfig or updateNamedConfig fails with
\* VersionConflictError the store is unchanged and the error carries a
\* version and the names of two different configurations that both claim
\* it; in particular a version repeated inside the versions of one
\* configuration raises no VersionConflictError.
C26_ConflictNamesTwoConfigs ==
  \A id \in MapKeys(store), name \in ConfigNames, c \in NamedConfigValues :
    \A o \in {createNamedConfig(store, id, name, c.data, c.versions, now),
               updateNamedConfig(store, id, name, c.data, c.versions, now)} :
      o.exit.tag = "VersionConflictError"
        => /\ o.store = store
           /\ o.exit.existingConfigName # o.exit.newConfigName
           /\ ClaimedByBoth(Candidate(MapGet(store, id), name, c),
                            o.exit.existingConfigName, o.exit.newConfigName, o.exit.version)

\* ----------------------------------------------------- version validation
\* One issue, referencing versions[i], per entry that is neither an exact
\* version nor a valid range.
RangeIssues(versions) ==
  SeqConcat([i \in 1..Len(versions) |->
     IF SemverValidRange(versions[i]) THEN <<>>
     ELSE <<Issue("versions[" \o ToString(i - 1) \o "]", versions[i])>>])

\* C27: the version-list validation reports exactly one issue, referencing
\* versions[i], per entry that is neither an exact version nor a valid
\* range, and createNamedConfig and updateNamedConfig, once past their
\* presence test, fail with those issues if there are any and with no
\* version issue otherwise.
C27_RangesAccepted ==
  \A id \in MapKeys(store), name \in ConfigNames, c \in NamedConfigValues :
    LET has == ObjTruthy(MapGet(store, id).namedConfigs, name)
        o == IF has THEN updateNamedConfig(store, id, name, c.data, c.versions, now)
             ELSE createNamedConfig(store, id, name, c.data, c.versions, now)
    IN /\ ValidateSemver(c.versions) = RangeIssues(c.versions)
       /\ IF RangeIssues(c.versions) # <<>>
          THEN o.exit = SemverValidationError(RangeIssues(c.versions))
          ELSE o.exit.tag # "SemverValidationError"

\* ---------------------------------------------------------------- creation
\* The named configurations validate against the schema and no two of them
\* claim the same version (I4, I6).
NamedConfigsPass(config) ==
  /\ \A c \in Range(config.namedConfigs) : Conforms(c.data, config.schema)
  /\ \A i, j \in 1..Len(config.namedConfigs) :
       i # j => Range(config.namedConfigs[i].versions) \cap Range(config.namedConfigs[j].versions) = {}

\* C28: createApplication with an unused applicationId succeeds and stores
\* the application when the id is not blank, the schema is a valid JSON
\* Schema, the default data validates against it and the named
\* configurations pass; it fails with ConfigValidationError and stores
\* nothing when the id is blank, the schema is not a valid JSON Schema or
\* the default data violates the schema.
C28_CreateValidates ==
  \A config \in CreatePayloads :
    LET o == createApplication(store, config, now)
    IN ~MapHas(store, config.applicationId)
         => IF \/ Trim(config.applicationId) = ""
               \/ ~SchemaIsValid(config.schema)
               \/ ~Conforms(config.defaultConfig.data, config.schema)
            THEN o.exit.tag = "ConfigValidationError" /\ o.store = store
            ELSE NamedConfigsPass(config)
                   => /\ o.exit = Ok
                      /\ o.store = Append(store, [key |-> config.applicationId,
                                                   value |-> [config EXCEPT !.lastUpdated = now]])

\* ------------------------------------------------------ the delivery route
IsVersion(version) == ParseToken(version).form = "exact"

\* C29: GET /config/{applicationId}/{version} answers 400 when version is
\* no version, whether the application is stored, archived or unknown; 404
\* when version is a version and getConfig returns null; and otherwise 200
\* with the data and the directive getConfig returned.
C29_RouteStatus ==
  \A id \in AppIds \cup {UnknownId}, v \in RouteVersions :
    LET r == ConfigRoute(store, id, v, cacheControl)
        c == getConfig(store, id, v, cacheControl)
    IN IF ~IsVersion(v) THEN r.status = 400
       ELSE IF c = <<>> THEN r.status = 404
       ELSE r = HttpResponse(200, c[1].data, c[1].cacheControl)

\* An archived application and one that is not are stored: requests for the
\* first are answered 400 and 404, requests for the second 400 and 200, a
\* named configuration matching the version.
C29_Witness ==
  \E id, other \in MapKeys(store) :
    /\ MapGet(store, id).archived
    /\ ConfigRoute(store, id, "junk", cacheControl).status = 400
    /\ ConfigRoute(store, id, "1.0.0", cacheControl).status = 404
    /\ ConfigRoute(store, other, "^1.0.0", cacheControl).status = 400
    /\ ConfigRoute(store, other, "1.0.0", cacheControl).status = 200
    /\ MatchingConfigs(MapGet(store, other), "1.0.0") # {}

\* ------------------------------------------------------------ cache-control
\* The max-age directives: of the durations an option carries (0 included),
\* and of the ten minutes and seven days served when there is no option.
MaxAgeDirectives ==
  {"max-age=" \o ToString(n) : n \in 0..2} \cup {"max-age=600", "max-age=604800"}

\* C30: a response of getConfig carries a max-age directive, whether the
\* cacheControl option is present or not; with the option present it is the
\* max-age of maxAgeSeconds when a named configuration matched and of
\* defaultMaxAgeSeconds when the default was returned.
C30_MaxAgeBySource ==
  (result.op = "getConfig" /\ result.response # <<>>)
    => /\ result.response[1].cacheControl \in MaxAgeDirectives
       /\ cacheControl.present
            => result.response[1].cacheControl =
                 "max-age=" \o ToString(IF MatchingConfigs(MapGet(store, result.key), result.arg) # {}
                                         THEN cacheControl.maxAgeSeconds
                                         ELSE cacheControl.defaultMaxAgeSeconds)

\* ---------------------------------------------------- the admin HTTP surface
\* The status the specification gives an error kind.
StatusOf(tag) ==
  CASE tag \in {"ConfigValidationError", "SemverValidationError"} -> {400}
    [] tag \in {"ApplicationNotFoundError", "NamedConfigNotFoundError"} -> {404}
    [] tag \in {"ApplicationAlreadyExistsError", "NamedConfigAlreadyExistsError", "VersionConflictError"} -> {409}
    [] tag \in {"MongoNetworkError", "MongoAuthError", "PoolExhaustedError"} -> {503}
    [] OTHER -> {}

\* C31: the admin routes answer every error kind with its fixed status
\* (400 validation, 404 not found, 409 already exists and version
\* conflict, 503 backend network/auth/pool), whichever operation failed
\* with it, and a successful create of an application or of a named
\* configuration with 201.
C31_StatusTable ==
  /\ \A tag \in ErrorTags, status \in {200, 201, 204} :
       StatusOf(tag) # {} => handleEffect(Exit(tag, <<>>, "", "", "", ""), status) \in StatusOf(tag)
  /\ (result.op \in Mutators /\ StatusOf(result.exit.tag) # {})
       => AdminRoute(result) \in StatusOf(result.exit.tag)
  /\ (result.op \in {"createApplication", "createNamedConfig"} /\ result.exit.tag = "ok")
       => AdminRoute(result) = 201

\* createNamedConfig has just failed with a version conflict, which the
\* admin route answers 409.
C31_Witness ==
  /\ result.op = "createNamedConfig"
  /\ result.exit.tag = "VersionConflictError"
  /\ result.exit.existingConfigName # result.exit.newConfigName
  /\ AdminRoute(result) = 409

\* ------------------------------------------------- requests naming a config
\* C32: for a stored, non-archived application and the name of one of its
\* named configurations, checkVersion(version, name) is true exactly when
\* version matches the versions of that configuration, and a successful
\* getConfig(version, name) returns the data of that configuration.
C32_NameSelectsConfig ==
  \A id \in MapKeys(store), v \in RequestVersions :
    \A c \in Range(MapGet(store, id).namedConfigs) :
      ~MapGet(store, id).archived
        => /\ checkVersion(store, id, v, c.name, cacheControl) <=> Matches(c, v)
           /\ ClientGetConfig(store, id, v, c.name, cacheControl).status = 200
                => ClientGetConfig(store, id, v, c.name, cacheControl).body = c.data

\* ------------------------------------------------------------ independence
\* C33: an operation invoked on one applicationId, whether it succeeds or
\* fails, leaves what is stored under every other applicationId as it was
\* (present with the same record, or absent).
C33_OthersUntouched ==
  [][\A id \in AppIds :
       result'.key # id => getApplication(store', id) = getApplication(store, id)]_vars

\* A mutation of one application has just succeeded while another, stored
\* earlier with named configurations, is in the store.
C33_Witness ==
  \E id \in MapKeys(store) :
    /\ result.op \in Mutators \ {"createApplication"}
    /\ result.exit.tag = "ok"
    /\ result.key # id
    /\ MapHas(store, result.key)
    /\ MapGet(store, id).namedConfigs # <<>>
    /\ MapGet(store, id).lastUpdated < MapGet(store, result.key).lastUpdated

\* ------------------------------------------------- validation before commit
Readers == {"listApplications", "getApplication", "getConfig"}

\* C34: an operation that returns an error, and every read (list, get,
\* getConfig), leaves the whole store exactly as it was before the call.
C34_ErrorsAndReadsKeepStore ==
  [][(result'.exit.tag # "ok" \/ result'.op \in Readers) => store' = store]_vars

\* A mutation of a stored application has just been refused by validation.
C34_Witness ==
  /\ result.op \in {"updateApplication", "createNamedConfig", "updateNamedConfig"}
  /\ result.exit.tag \in {"ConfigValidationError", "SemverValidationError", "VersionConflictError"}
  /\ MapHas(store, result.key)

\* ------------------------------------------------------- resolution order
\* The position of a name among the keys of an object, 0 when absent.
KeyIndex(obj, name) == SelectIdx(obj, LAMBDA x : x.name = name)
Precedes(obj, n1, n2) ==
  KeyIndex(obj, n1) > 0 /\ KeyIndex(obj, n1) < KeyIndex(obj, n2)

\* The bodies updateNamedConfig is applied with here: those of the
\* operations, and two that give a stored configuration new data under the
\* token it has.
UpdateBodies ==
  NamedConfigValues \cup { [data |-> PropSet, versions |-> <<"v1.0.0">>],
                           [data |-> {}, versions |-> <<"1.0.0">>] }

NamedConfigsOf(m, applicationId) ==
  IF MapHas(m, applicationId) THEN MapGet(m, applicationId).namedConfigs ELSE <<>>

\* C35: a successful updateNamedConfig of a stored configuration C1 keeps the
\* order of the named configurations: a C2 that C1 preceded it still
\* precedes, and for a version that matches both (and no configuration
\* before C1) getConfig returns the new data of C1.
C35_UpdateKeepsPosition ==
  \A id \in AppIds, n1 \in ConfigNames, c \in UpdateBodies :
    LET o == updateNamedConfig(store, id, n1, c.data, c.versions, now)
        before == NamedConfigsOf(store, id)
        after == NamedConfigsOf(o.store, id)
    IN (o.exit.tag = "ok" /\ ObjHas(before, n1))
         => /\ ObjKeys(after) = ObjKeys(before)
            /\ \A n2 \in ConfigNames :
                 Precedes(before, n1, n2)
                   => /\ Precedes(after, n1, n2)
                      /\ \A v \in RequestVersions :
                           (/\ ~MapGet(o.store, id).archived
                            /\ Matches(after[KeyIndex(after, n1)], v)
                            /\ Matches(after[KeyIndex(after, n2)], v)
                            /\ \A i \in 1..(KeyIndex(after, n1) - 1) : ~Matches(after[i], v))
                             => getConfig(o.store, id, v, cacheControl)
                                  = <<Response(c.data, Directive(cacheControl, cacheControl.maxAgeSeconds))>>

\* updateNamedConfig has just succeeded on a configuration that precedes
\* another one, and 1.0.0 matches both.
C35_Witness ==
  /\ result.op = "updateNamedConfig"
  /\ result.exit.tag = "ok"
  /\ MapHas(store, result.key)
  /\ ~MapGet(store, result.key).archived
  /\ LET nc == MapGet(store, result.key).namedConfigs
     IN \E i, j \in 1..Len(nc) :
          /\ i < j
          /\ nc[i].name = result.arg
          /\ Matches(nc[i], "1.0.0")
          /\ Matches(nc[j], "1.0.0")

\* ------------------------------------------------- archive, then unarchive
\* archiveApplication at the current time, then unarchiveApplication one
\* tick later, with nothing in between.
ArchiveThenUnarchive(m, applicationId) ==
  unarchiveApplication(archiveApplication(m, applicationId, now).store, applicationId, now + 1)

SameButLastUpdated(a, b) == [a EXCEPT !.lastUpdated = b.lastUpdated] = b

\* archive succeeds on a stored application, archived or not, and leaves it
\* archived.
ArchiveAlwaysArchives ==
  \A id \in MapKeys(store) :
    LET a == archiveApplication(store, id, now)
    IN a.exit.tag = "ok" /\ MapGet(a.store, id).archived

\* C36 as stated: for every stored application, after archive; unarchive
\* every getConfig returns what it returned before the archive, and the
\* stored record differs from the original only in lastUpdated; archive on an
\* archived application succeeds and leaves it archived.
C36_ArchiveRoundTrip ==
  /\ ArchiveAlwaysArchives
  /\ \A id \in MapKeys(store) :
       LET u == ArchiveThenUnarchive(store, id)
       IN /\ u.exit.tag = "ok"
          /\ \A v \in RequestVersions :
               getConfig(u.store, id, v, cacheControl) = getConfig(store, id, v, cacheControl)
          /\ SameButLastUpdated(MapGet(u.store, id), MapGet(store, id))

\* C36, for an application that is not archived to begin with: after
\* archive; unarchive every getConfig returns what it returned before the
\* archive, and the stored record differs from the original only in
\* lastUpdated. An application that was archived comes out not archived, and
\* differs from the original in archived and lastUpdated only. archive on an
\* archived application succeeds and leaves it archived.
C36_ArchiveRoundTripWhenActive ==
  /\ ArchiveAlwaysArchives
  /\ \A id \in MapKeys(store) :
       LET u == ArchiveThenUnarchive(store, id)
           orig == MapGet(store, id)
       IN /\ u.exit.tag = "ok"
          /\ \A other \in AppIds \ {id} : getApplication(u.store, other) = getApplication(store, other)
          /\ ~MapGet(u.store, id).archived
          /\ SameButLastUpdated(MapGet(u.store, id), [orig EXCEPT !.archived = FALSE])
          /\ ~orig.archived
               => \A v \in RequestVersions :
                    getConfig(u.store, id, v, cacheControl) = getConfig(store, id, v, cacheControl)

\* archive has just succeeded on an application that has a named
\* configuration 1.0.0 matches and one it does not: the application is
\* archived, getConfig answers nothing, and the unarchive is still to come.
C36_Witness ==
  /\ result.op = "archiveApplication"
  /\ result.exit.tag = "ok"
  /\ MapHas(store, result.key)
  /\ MapGet(store, result.key).archived
  /\ MatchingConfigs(MapGet(store, result.key), "1.0.0") # {}
  /\ getConfig(store, result.key, "1.0.0", cacheControl) = <<>>
  /\ getConfig(ArchiveThenUnarchive(store, result.key).store, result.key, "1.0.0", cacheControl) # <<>>

\* ------------------------------------------------------------- autosave
\* C37: at most one call of saveFunction is in flight at any time, and the
\* timeouts of a burst of triggerSave calls, each made while the timeout of
\* the one before was pending, start at most one save.
C37_OneSaveAtATime ==
  /\ Len(requests) <= 1
  /\ Cardinality(timeouts) <= 1
  /\ burst.starts <= 1
  /\ isSavingRef <=> requests # <<>>

\* The timeout of a burst of two or more triggerSave calls has started a
\* save, which is in flight, and a later call found it in flight.
C37_Witness ==
  /\ burst.calls = 2
  /\ burst.starts = 1
  /\ Len(requests) = 1
  /\ owed

\* C38: after a triggerSave, saveOnBlur or executeSave call, when timers fire
\* and saves terminate, a call of saveFunction that starts after it
\* eventually runs.
C38_EventuallySaves == owed ~> ~owed

====
